---- MODULE Spec2Model ----
(***************************************************************************)
(* Calendrical conversions of the `calendars` crate: the numeric           *)
(* primitives, the per-calendar conversions between an absolute (fixed)    *)
(* date and calendar dates, and the generic Date dispatch.                 *)
(*                                                                         *)
(* The library is a set of pure functions; each becomes an operator that   *)
(* computes what the Rust function computes.  The state machine is a       *)
(* caller: it holds an absolute date `a`, converts it into a calendar date *)
(* (`date`, of calendar `cal`) and converts that date back (`res`).        *)
(***************************************************************************)
EXTENDS Integers, Sequences, FiniteSets, TLC

VARIABLES a, pc, cal, date, res

vars == <<a, pc, cal, date, res>>

(***************************************************************************)
(* Option<i64>                                                             *)
(***************************************************************************)
None == [some |-> FALSE]

Some(v) == [some |-> TRUE, value |-> v]

(***************************************************************************)
(* `let name = value;` followed by the rest of the function body: the      *)
(* value is computed first, once, and the body reads it through the name.  *)
(* The test of the value against itself is what computes it before the     *)
(* body is entered.                                                        *)
(***************************************************************************)
Let(value, body(_)) == CASE value = value -> body(value)

(***************************************************************************)
(* math.rs                                                                 *)
(***************************************************************************)

\* Rust's `%` on i64: the remainder of the truncating division (sign of a).
rust_rem(a_, b) == IF a_ >= 0 THEN a_ % b ELSE -((-a_) % b)

\* Rust's `/` on i64: the truncating division.
rust_div(a_, b) == IF a_ >= 0 THEN a_ \div b ELSE -((-a_) \div b)

\* Mutant: the remainder of the truncating division, `a % b` alone.
modulus_truncating(a_, b) == rust_rem(a_, b)

modulus(a_, b) == rust_rem(rust_rem(a_, b) + b, b)

\* Mutant: the truncated quotient instead of the floored one.
floor_div_truncating(a_, b) == rust_div(a_, b)

\* ((a as f64) / (b as f64)).floor() as i64.  Both operands are below 2^53
\* in magnitude and b > 0 at every call, so the conversions are exact and the
\* correctly rounded quotient has the floor of the exact quotient.
floor_div(a_, b) ==
    IF rust_rem(a_, b) # 0 /\ a_ < 0 THEN rust_div(a_, b) - 1 ELSE rust_div(a_, b)

amod(a_, b) == modulus(a_ - 1, b) + 1

\* (k..).take_while(p).map(f).sum(): p is evaluated at k, k+1, ... in order,
\* once per index, and f is added for every index before the first one where
\* p is false.  `stop` is that first index.  scan(lo, n) is the first index
\* of lo..(lo + n - 1) where p is false, or lo + n when there is none, found
\* by halving the run; gallop doubles the run until it holds such an index.
\* Both keep the order of the evaluations and make a search of thousands of
\* steps shallow to evaluate.  The terms are small integers, so the f64
\* additions are exact and their order is immaterial.
sum(f(_), k, p(_)) ==
    LET RECURSIVE scan(_, _)
        scan(lo, n) ==
            IF n = 1 THEN (IF p(lo) THEN lo + 1 ELSE lo)
            ELSE LET m == scan(lo, n \div 2)
                 IN IF m < lo + (n \div 2) THEN m
                    ELSE scan(lo + (n \div 2), n - (n \div 2))
        RECURSIVE gallop(_, _)
        gallop(lo, n) ==
            LET m == scan(lo, n)
            IN IF m < lo + n THEN m ELSE gallop(lo + n, 2 * n)
        stop == gallop(k, 1)
        RECURSIVE total(_, _)
        total(lo, hi) ==
            IF hi <= lo THEN 0
            ELSE IF hi = lo + 1 THEN f(lo)
            ELSE LET mid == (lo + hi) \div 2
                 IN total(lo, mid) + total(mid, hi)
    IN total(k, stop)

One(i) == 1

(***************************************************************************)
(* gregorian.rs                                                            *)
(***************************************************************************)
Gregorian(year, month, day) == [year |-> year, month |-> month, day |-> day]

\* Mutant: the Julian rule, every fourth year a leap year.
last_day_of_gregorian_month_every_fourth(month, year) ==
    IF month = 2 /\ modulus(year, 4) = 0
    THEN 29
    ELSE LET days == <<31, 28, 31, 30, 31, 30, 31, 31, 30, 31, 30, 31>>
         IN days[(month - 1) + 1]

last_day_of_gregorian_month(month, year) ==
    IF month = 2 /\ modulus(year, 4) = 0
                 /\ modulus(year, 400) \notin {100, 200, 300}
    THEN 29
    ELSE LET days == <<31, 28, 31, 30, 31, 30, 31, 31, 30, 31, 30, 31>>
         IN days[(month - 1) + 1]

absolute_from_gregorian(d) ==
    LET month == d.month
        year == d.year
        day == d.day
        f(m) == last_day_of_gregorian_month(m, year)
        p(m) == m < month
    IN day + sum(f, 1, p) + 365 * (year - 1) + floor_div(year - 1, 4)
           - floor_div(year - 1, 100)
           + floor_div(year - 1, 400)

\* Mutant: the day of the month counted from the first of the month itself
\* (the "- 1" of line 90 dropped).
gregorian_from_absolute_day0(absolute_date) ==
    LET d_0 == absolute_date - 1
        n_400 == floor_div(d_0, 146097)
        d_1 == modulus(d_0, 146097)
        n_100 == floor_div(d_1, 36524)
        d_2 == modulus(d_1, 36524)
        n_4 == floor_div(d_2, 1461)
        d_3 == modulus(d_2, 1461)
        n_1 == floor_div(d_3, 365)
        year == IF n_100 = 4 \/ n_1 = 4
                THEN 400 * n_400 + 100 * n_100 + 4 * n_4 + n_1
                ELSE 400 * n_400 + 100 * n_100 + 4 * n_4 + n_1 + 1
        p(m) == absolute_date >
                  absolute_from_gregorian(
                      Gregorian(year, m, last_day_of_gregorian_month(m, year)))
        month == sum(One, 1, p) + 1
        day == absolute_date - absolute_from_gregorian(Gregorian(year, month, 1))
    IN Gregorian(year, month, day)

gregorian_from_absolute(absolute_date) ==
    LET d_0 == absolute_date - 1
        n_400 == floor_div(d_0, 146097)
        d_1 == modulus(d_0, 146097)
        n_100 == floor_div(d_1, 36524)
        d_2 == modulus(d_1, 36524)
        n_4 == floor_div(d_2, 1461)
        d_3 == modulus(d_2, 1461)
        n_1 == floor_div(d_3, 365)
        year == IF n_100 = 4 \/ n_1 = 4
                THEN 400 * n_400 + 100 * n_100 + 4 * n_4 + n_1
                ELSE 400 * n_400 + 100 * n_100 + 4 * n_4 + n_1 + 1
        p(m) == absolute_date >
                  absolute_from_gregorian(
                      Gregorian(year, m, last_day_of_gregorian_month(m, year)))
        month == sum(One, 1, p) + 1
        day == absolute_date
               - (absolute_from_gregorian(Gregorian(year, month, 1)) - 1)
    IN Gregorian(year, month, day)

(***************************************************************************)
(* julian.rs                                                               *)
(***************************************************************************)
Julian(year, month, day) == [year |-> year, month |-> month, day |-> day]

last_day_of_julian_month(month, year) ==
    IF month = 2 /\ modulus(year, 4) = 0
    THEN 29
    ELSE LET days == <<31, 28, 31, 30, 31, 30, 31, 31, 30, 31, 30, 31>>
         IN days[(month - 1) + 1]

\* Mutant: the Julian epoch offset (the "- 2") left out.
absolute_from_julian_no_offset(d) ==
    LET year == d.year
        month == d.month
        day == d.day
        f(m) == last_day_of_julian_month(m, year)
        p(m) == m < month
    IN day + sum(f, 1, p) + 365 * (year - 1) + floor_div(year - 1, 4)

absolute_from_julian(d) ==
    LET year == d.year
        month == d.month
        day == d.day
        f(m) == last_day_of_julian_month(m, year)
        p(m) == m < month
    IN day + sum(f, 1, p) + 365 * (year - 1) + floor_div(year - 1, 4) - 2

julian_from_absolute(absolute_date) ==
    LET approx == floor_div(absolute_date + 2, 366)
        py(y) == absolute_date >= absolute_from_julian(Julian(y + 1, 1, 1))
        year == approx + sum(One, approx, py)
        pm(m) == absolute_date >
                   absolute_from_julian(
                       Julian(year, m, last_day_of_julian_month(m, year)))
        month == 1 + sum(One, 1, pm)
        day == absolute_date - (absolute_from_julian(Julian(year, month, 1)) - 1)
    IN Julian(year, month, day)

(***************************************************************************)
(* iso.rs                                                                  *)
(***************************************************************************)
Iso(year, week, day) == [year |-> year, week |-> week, day |-> day]

\* Mutant: the remainder of the truncating division in place of modulus.
kday_on_or_before_truncating(absolute_date, k) ==
    absolute_date - rust_rem(absolute_date - k, 7)

kday_on_or_before(absolute_date, k) ==
    absolute_date - modulus(absolute_date - k, 7)

absolute_from_iso(d) ==
    LET year == d.year
        week == d.week
        day == d.day
    IN kday_on_or_before(absolute_from_gregorian(Gregorian(year, 1, 4)), 1)
         + 7 * (week - 1)
         + (day - 1)

iso_from_absolute(absolute_date) ==
    LET approx == gregorian_from_absolute(absolute_date - 3).year
        year == IF absolute_date >= absolute_from_iso(Iso(approx + 1, 1, 1))
                THEN approx + 1
                ELSE approx
        week == rust_div(absolute_date - absolute_from_iso(Iso(year, 1, 1)), 7) + 1
        day == IF modulus(absolute_date, 7) = 0 THEN 7 ELSE modulus(absolute_date, 7)
    IN Iso(year, week, day)

(***************************************************************************)
(* mayan.rs: the long count                                                *)
(***************************************************************************)
MayanLongCount(baktun, katun, tun, uinal, kin) ==
    [baktun |-> baktun, katun |-> katun, tun |-> tun, uinal |-> uinal, kin |-> kin]

MAYAN_DAYS_BEFORE_ABSOLUTE_ZERO == 1137142

absolute_from_mayan_long_count(d) ==
    d.baktun * 144000 + d.katun * 7200 + d.tun * 360 + d.uinal * 20 + d.kin
      - MAYAN_DAYS_BEFORE_ABSOLUTE_ZERO

mayan_long_count_from_absolute(absolute_date) ==
    LET long_count == absolute_date + MAYAN_DAYS_BEFORE_ABSOLUTE_ZERO
        baktun == floor_div(long_count, 144000)
        day_of_baktun == modulus(long_count, 144000)
        katun == floor_div(day_of_baktun, 7200)
        day_of_katun == modulus(day_of_baktun, 7200)
        tun == floor_div(day_of_katun, 360)
        day_of_tun == modulus(day_of_katun, 360)
        uinal == floor_div(day_of_tun, 20)
        kin == modulus(day_of_tun, 20)
    IN MayanLongCount(baktun, katun, tun, uinal, kin)

(***************************************************************************)
(* islamic.rs                                                              *)
(***************************************************************************)
Islamic(year, month, day) == [year |-> year, month |-> month, day |-> day]

islamic_leap_year(year) == modulus(14 + (11 * year), 30) < 11

last_day_of_islamic_month(month, year) ==
    IF modulus(month, 2) # 0 \/ (month = 12 /\ islamic_leap_year(year))
    THEN 30
    ELSE 29

\* Mutant: the thirtieth days of the odd months are not counted.
absolute_from_islamic_short_months(d) ==
    LET month == d.month
        year == d.year
        day == d.day
    IN day + (29 * (month - 1)) + (year - 1) * 354
           + floor_div(3 + (11 * year), 30)
           + 227014

absolute_from_islamic(d) ==
    LET month == d.month
        year == d.year
        day == d.day
    IN day + (29 * (month - 1)) + floor_div(month, 2) + (year - 1) * 354
           + floor_div(3 + (11 * year), 30)
           + 227014

islamic_from_absolute(absolute_date) ==
    IF absolute_date < 227014
    THEN Islamic(0, 0, 0)
    ELSE LET approx == floor_div(absolute_date - 227014, 355)
             py(y) == absolute_date >= absolute_from_islamic(Islamic(y + 1, 1, 1))
             year == approx + sum(One, approx, py)
             pm(m) == absolute_date >
                        absolute_from_islamic(
                            Islamic(year, m, last_day_of_islamic_month(m, year)))
             month == 1 + sum(One, 1, pm)
             day == absolute_date
                    - (absolute_from_islamic(Islamic(year, month, 1)) - 1)
         IN Islamic(year, month, day)

(***************************************************************************)
(* french.rs                                                               *)
(***************************************************************************)
French(year, month, day) == [year |-> year, month |-> month, day |-> day]

french_leap_year(f_year) ==
    \/ f_year \in {3, 7, 11}
    \/ f_year \in {15, 20}
    \/ /\ f_year > 20
       /\ modulus(f_year, 4) = 0
       /\ modulus(f_year, 400) \notin {100, 200, 300}
       /\ modulus(f_year, 4000) # 0

french_last_day_of_month(month, year) ==
    IF month < 13 THEN 30 ELSE IF french_leap_year(year) THEN 6 ELSE 5

absolute_from_french(d) ==
    LET year == d.year
        month == d.month
        day == d.day
    IN 654414 + (365 * (year - 1))
         + (IF year < 20
            THEN floor_div(year, 4)
            ELSE floor_div(year - 1, 4) - floor_div(year - 1, 100)
                   + floor_div(year - 1, 400)
                   - floor_div(year - 1, 4000))
         + (30 * (month - 1))
         + day

\* Mutant: the day of the month counted from 0 (the "- 1" dropped).
french_from_absolute_day0(absolute_date) ==
    IF absolute_date < 654415
    THEN French(0, 0, 0)
    ELSE LET approx == floor_div(absolute_date - 654414, 366)
             py(y) == absolute_date >= absolute_from_french(French(y + 1, 1, 1))
             year == approx + sum(One, approx, py)
             pm(m) == absolute_date >
                        absolute_from_french(
                            French(year, m, french_last_day_of_month(m, year)))
             month == 1 + sum(One, 1, pm)
             day == absolute_date - absolute_from_french(French(year, month, 1))
         IN French(year, month, day)

french_from_absolute(absolute_date) ==
    IF absolute_date < 654415
    THEN French(0, 0, 0)
    ELSE LET approx == floor_div(absolute_date - 654414, 366)
             py(y) == absolute_date >= absolute_from_french(French(y + 1, 1, 1))
             year == approx + sum(One, approx, py)
             pm(m) == absolute_date >
                        absolute_from_french(
                            French(year, m, french_last_day_of_month(m, year)))
             month == 1 + sum(One, 1, pm)
             day == absolute_date
                    - (absolute_from_french(French(year, month, 1)) - 1)
         IN French(year, month, day)

(***************************************************************************)
(* hebrew.rs                                                               *)
(***************************************************************************)
Hebrew(year, month, day) == [year |-> year, month |-> month, day |-> day]

hebrew_leap_year(year) == modulus((year * 7) + 1, 19) < 7

last_month_of_hebrew_year(year) == IF hebrew_leap_year(year) THEN 13 ELSE 12

\* Mutant: a year may start on a Friday (the last postponement tests 0 and 3
\* only).
hebrew_calendar_elapsed_days_friday(year) ==
    Let(235 * floor_div(year - 1, 19)
          + 12 * modulus(year - 1, 19)
          + floor_div(modulus(year - 1, 19) * 7 + 1, 19),
        LAMBDA months_elapsed :
    Let(204 + (793 * modulus(months_elapsed, 1080)),
        LAMBDA parts_elapsed :
    Let(5 + (12 * months_elapsed)
          + (793 * floor_div(months_elapsed, 1080))
          + floor_div(parts_elapsed, 1080),
        LAMBDA hours_elapsed :
    Let(1 + (29 * months_elapsed) + floor_div(hours_elapsed, 24),
        LAMBDA day :
    Let((1080 * modulus(hours_elapsed, 24)) + modulus(parts_elapsed, 1080),
        LAMBDA parts :
    Let(IF \/ parts >= 19440
           \/ (modulus(day, 7) = 2 /\ parts >= 9924 /\ ~hebrew_leap_year(year))
           \/ (modulus(day, 7) = 1 /\ parts >= 16789 /\ hebrew_leap_year(year - 1))
        THEN day + 1
        ELSE day,
        LAMBDA alternative_day :
    IF modulus(alternative_day, 7) \in {0, 3}
    THEN alternative_day + 1
    ELSE alternative_day))))))

hebrew_calendar_elapsed_days(year) ==
    Let(235 * floor_div(year - 1, 19)
          + 12 * modulus(year - 1, 19)
          + floor_div(modulus(year - 1, 19) * 7 + 1, 19),
        LAMBDA months_elapsed :
    Let(204 + (793 * modulus(months_elapsed, 1080)),
        LAMBDA parts_elapsed :
    Let(5 + (12 * months_elapsed)
          + (793 * floor_div(months_elapsed, 1080))
          + floor_div(parts_elapsed, 1080),
        LAMBDA hours_elapsed :
    Let(1 + (29 * months_elapsed) + floor_div(hours_elapsed, 24),
        LAMBDA day :
    Let((1080 * modulus(hours_elapsed, 24)) + modulus(parts_elapsed, 1080),
        LAMBDA parts :
    Let(IF \/ parts >= 19440
           \/ (modulus(day, 7) = 2 /\ parts >= 9924 /\ ~hebrew_leap_year(year))
           \/ (modulus(day, 7) = 1 /\ parts >= 16789 /\ hebrew_leap_year(year - 1))
        THEN day + 1
        ELSE day,
        LAMBDA alternative_day :
    IF modulus(alternative_day, 7) \in {0, 3, 5}
    THEN alternative_day + 1
    ELSE alternative_day))))))

days_in_hebrew_year(year) ==
    hebrew_calendar_elapsed_days(year + 1) - hebrew_calendar_elapsed_days(year)

long_heshvan(year) == modulus(days_in_hebrew_year(year), 10) = 5

short_kislev(year) == modulus(days_in_hebrew_year(year), 10) = 3

\* Mutant: Adar (month 12) has 30 days in every year.
last_day_of_hebrew_month_long_adar(month, year) ==
    IF \/ month \in {2, 4, 6, 10, 13}
       \/ (month = 8 /\ ~long_heshvan(year))
       \/ (month = 9 /\ short_kislev(year))
    THEN 29
    ELSE 30

last_day_of_hebrew_month(month, year) ==
    IF \/ month \in {2, 4, 6, 10, 13}
       \/ (month = 12 /\ ~hebrew_leap_year(year))
       \/ (month = 8 /\ ~long_heshvan(year))
       \/ (month = 9 /\ short_kislev(year))
    THEN 29
    ELSE 30

absolute_from_hebrew(d) ==
    LET year == d.year
        month == d.month
        day == d.day
        f(m) == last_day_of_hebrew_month(m, year)
        to_year_end(m) == m <= last_month_of_hebrew_year(year)
        before_month(m) == m < month
    IN day
         + (IF month < 7
            THEN sum(f, 7, to_year_end) + sum(f, 1, before_month)
            ELSE sum(f, 7, before_month))
         + hebrew_calendar_elapsed_days(year)
         - 1373429

hebrew_from_absolute(absolute_date) ==
    Let(modulus(absolute_date + 1373429, 366),
        LAMBDA approx :
    Let(LET py(y) == absolute_date >= absolute_from_hebrew(Hebrew(y + 1, 7, 1))
        IN approx + sum(One, approx, py),
        LAMBDA year :
    Let(IF absolute_date < absolute_from_hebrew(Hebrew(year, 1, 1))
        THEN 7
        ELSE 1,
        LAMBDA start :
    Let(LET pm(m) == absolute_date >
                       absolute_from_hebrew(
                           Hebrew(year, m, last_day_of_hebrew_month(m, year)))
        IN start + sum(One, start, pm),
        LAMBDA month :
    Let(absolute_date - (absolute_from_hebrew(Hebrew(year, month, 1)) - 1),
        LAMBDA day :
    Hebrew(year, month, day))))))

(***************************************************************************)
(* The absolute dates the caller starts from: a grid over -Range..Range    *)
(* and a window of days around each date of Anchors.                       *)
(***************************************************************************)
Range == 1000000

Stride == 9973

Window == 2

Around(S) == UNION {(c - Window)..(c + Window) : c \in S}

Grid == {k * Stride : k \in (-(Range \div Stride))..(Range \div Stride)}

\* The ends of the range, the origin, ends of the 4-, 100- and 400-year
\* Gregorian cycles, 29 February 2000, and long count 0.0.0.0.0.
Anchors == {-Range, Range, 0, 1461, 36524, 146097, -146097, 730120, 730179,
            -MAYAN_DAYS_BEFORE_ABSOLUTE_ZERO, -MAYAN_DAYS_BEFORE_ABSOLUTE_ZERO - 144000}

Dates == Grid \cup Around(Anchors)

InRange(x) == -Range <= x /\ x <= Range

(***************************************************************************)
(* The caller                                                              *)
(***************************************************************************)
Init ==
    /\ a \in Dates
    /\ pc = "input"
    /\ cal = "none"
    /\ date = None
    /\ res = None

GregorianFromAbsolute ==
    /\ pc = "input"
    /\ date' = gregorian_from_absolute(a)
    /\ cal' = "gregorian"
    /\ pc' = "date"
    /\ UNCHANGED <<a, res>>

AbsoluteFromGregorian ==
    /\ pc = "date" /\ cal = "gregorian"
    /\ res' = absolute_from_gregorian(date)
    /\ pc' = "absolute"
    /\ UNCHANGED <<a, cal, date>>

JulianFromAbsolute ==
    /\ pc = "input"
    /\ date' = julian_from_absolute(a)
    /\ cal' = "julian"
    /\ pc' = "date"
    /\ UNCHANGED <<a, res>>

AbsoluteFromJulian ==
    /\ pc = "date" /\ cal = "julian"
    /\ res' = absolute_from_julian(date)
    /\ pc' = "absolute"
    /\ UNCHANGED <<a, cal, date>>

IsoFromAbsolute ==
    /\ pc = "input"
    /\ date' = iso_from_absolute(a)
    /\ cal' = "iso"
    /\ pc' = "date"
    /\ UNCHANGED <<a, res>>

AbsoluteFromIso ==
    /\ pc = "date" /\ cal = "iso"
    /\ res' = absolute_from_iso(date)
    /\ pc' = "absolute"
    /\ UNCHANGED <<a, cal, date>>

MayanLongCountFromAbsolute ==
    /\ pc = "input"
    /\ date' = mayan_long_count_from_absolute(a)
    /\ cal' = "mayanLongCount"
    /\ pc' = "date"
    /\ UNCHANGED <<a, res>>

AbsoluteFromMayanLongCount ==
    /\ pc = "date" /\ cal = "mayanLongCount"
    /\ res' = absolute_from_mayan_long_count(date)
    /\ pc' = "absolute"
    /\ UNCHANGED <<a, cal, date>>

Next ==
    \/ GregorianFromAbsolute
    \/ AbsoluteFromGregorian
    \/ JulianFromAbsolute
    \/ AbsoluteFromJulian
    \/ IsoFromAbsolute
    \/ AbsoluteFromIso
    \/ MayanLongCountFromAbsolute
    \/ AbsoluteFromMayanLongCount

Spec == Init /\ [][Next]_vars

(***************************************************************************)
(* C1: for every absolute date a in -1000000..1000000, converting a to a   *)
(* Gregorian, a Julian or an ISO date and converting that date back gives  *)
(* a again.                                                                *)
(***************************************************************************)
RoundTripGregorianJulianIso ==
    (pc = "absolute" /\ cal \in {"gregorian", "julian", "iso"} /\ InRange(a))
        => res = a

\* A negative date before the 400-year cycle of year 1 has made the round
\* trip in each of the three calendars.
RoundTripWitness ==
    /\ pc = "absolute" /\ cal = "iso"
    /\ a = -Range
    /\ res = a

(***************************************************************************)
(* C3: for every absolute date a, negative long counts included,           *)
(* mayan_long_count_from_absolute(a) is the mixed-radix decomposition of   *)
(* a + 1137142 with 0 <= katun < 20, 0 <= tun < 20, 0 <= uinal < 18 and    *)
(* 0 <= kin < 20 (its digits are the floored quotients and remainders by   *)
(* the place values, so no other decomposition has them in range), and     *)
(* absolute_from_mayan_long_count gives a back.                            *)
(***************************************************************************)
LongCountMixedRadix ==
    (pc \in {"date", "absolute"} /\ cal = "mayanLongCount") =>
        LET n == a + 1137142 IN
        /\ date.katun \in 0..19 /\ date.tun \in 0..19
        /\ date.uinal \in 0..17 /\ date.kin \in 0..19
        /\ date.baktun * 144000 + date.katun * 7200 + date.tun * 360
             + date.uinal * 20 + date.kin = n
        /\ date.kin = n % 20
        /\ date.uinal = (n \div 20) % 18
        /\ date.tun = (n \div 360) % 20
        /\ date.katun = (n \div 7200) % 20
        /\ date.baktun = n \div 144000
        /\ (pc = "absolute" => res = a)

\* A date before long count 0.0.0.0.0 (negative baktun) has made the round trip.
LongCountWitness ==
    /\ pc = "absolute" /\ cal = "mayanLongCount"
    /\ date.baktun < 0 /\ date.kin > 0
    /\ res = a

(***************************************************************************)
(* C5: the known fixed points: absolute date 1 is Gregorian {1, 1, 1} and  *)
(* Julian {1, 1, 3}, and long count 0.0.0.0.0 is absolute date -1137142.   *)
(***************************************************************************)
KnownFixedPoints ==
    /\ (pc = "date" /\ cal = "gregorian" /\ a = 1)
          => date = [year |-> 1, month |-> 1, day |-> 1]
    /\ (pc = "date" /\ cal = "julian" /\ a = 1)
          => date = [year |-> 1, month |-> 1, day |-> 3]
    /\ (pc = "absolute" /\ cal = "mayanLongCount"
          /\ date = [baktun |-> 0, katun |-> 0, tun |-> 0, uinal |-> 0, kin |-> 0])
          => res = -1137142

\* Long count 0.0.0.0.0 has been converted to its absolute date.
KnownFixedPointsWitness ==
    /\ pc = "absolute" /\ cal = "mayanLongCount"
    /\ date = [baktun |-> 0, katun |-> 0, tun |-> 0, uinal |-> 0, kin |-> 0]
    /\ res = -1137142

(***************************************************************************)
(* The epoch-based calendars: Islamic, French Revolutionary and Hebrew.    *)
(* The caller starts from the same grid and from the days around the two   *)
(* epochs, the French year 19/20 switch of formula, and an Islamic and a   *)
(* Hebrew new year.                                                        *)
(***************************************************************************)
EpochAnchors == {-Range, Range, 227014, 654414, 661354, 738779, 738985, 739075}

EpochDates == Grid \cup Around(EpochAnchors)

InitEpoch ==
    /\ a \in EpochDates
    /\ pc = "input"
    /\ cal = "none"
    /\ date = None
    /\ res = None

IslamicFromAbsolute ==
    /\ pc = "input"
    /\ date' = islamic_from_absolute(a)
    /\ cal' = "islamic"
    /\ pc' = "date"
    /\ UNCHANGED <<a, res>>

AbsoluteFromIslamic ==
    /\ pc = "date" /\ cal = "islamic"
    /\ res' = absolute_from_islamic(date)
    /\ pc' = "absolute"
    /\ UNCHANGED <<a, cal, date>>

FrenchFromAbsolute ==
    /\ pc = "input"
    /\ date' = french_from_absolute(a)
    /\ cal' = "french"
    /\ pc' = "date"
    /\ UNCHANGED <<a, res>>

AbsoluteFromFrench ==
    /\ pc = "date" /\ cal = "french"
    /\ res' = absolute_from_french(date)
    /\ pc' = "absolute"
    /\ UNCHANGED <<a, cal, date>>

HebrewFromAbsolute ==
    /\ pc = "input"
    /\ date' = hebrew_from_absolute(a)
    /\ cal' = "hebrew"
    /\ pc' = "date"
    /\ UNCHANGED <<a, res>>

AbsoluteFromHebrew ==
    /\ pc = "date" /\ cal = "hebrew"
    /\ res' = absolute_from_hebrew(date)
    /\ pc' = "absolute"
    /\ UNCHANGED <<a, cal, date>>

NextEpoch ==
    \/ IslamicFromAbsolute
    \/ AbsoluteFromIslamic
    \/ FrenchFromAbsolute
    \/ AbsoluteFromFrench
    \/ HebrewFromAbsolute
    \/ AbsoluteFromHebrew

SpecEpoch == InitEpoch /\ [][NextEpoch]_vars

(***************************************************************************)
(* C2: the round trip is the identity for the epoch-based calendars:       *)
(* Islamic for 227015 <= a <= 1000000, French for 654415 <= a <= 1000000,  *)
(* Hebrew for every a in -1000000..1000000.                                *)
(***************************************************************************)
RoundTripIslamicFrenchHebrew ==
    (pc = "absolute" /\ InRange(a)) =>
        /\ (cal = "islamic" /\ a >= 227015) => res = a
        /\ (cal = "french" /\ a >= 654415) => res = a
        /\ cal = "hebrew" => res = a

\* The last day of French year 19 (a Sansculottide, just before the switch of
\* formula) has made the round trip.
RoundTripEpochWitness ==
    /\ pc = "absolute" /\ cal = "french"
    /\ date = [year |-> 19, month |-> 13, day |-> 5]
    /\ res = a

(***************************************************************************)
(* C6: islamic_from_absolute(a) and french_from_absolute(a) are the        *)
(* all-zero date for every a before the first day of the calendar          *)
(* (absolute_from_islamic({1,1,1}), absolute_from_french({1,1,1})) and a   *)
(* date of year >= 1 for every a from that day on.                         *)
(***************************************************************************)
SentinelBeforeFirstDay ==
    /\ (pc = "date" /\ cal = "islamic") =>
          IF a < absolute_from_islamic([year |-> 1, month |-> 1, day |-> 1])
          THEN date = [year |-> 0, month |-> 0, day |-> 0]
          ELSE date.year >= 1
    /\ (pc = "date" /\ cal = "french") =>
          IF a < absolute_from_french([year |-> 1, month |-> 1, day |-> 1])
          THEN date = [year |-> 0, month |-> 0, day |-> 0]
          ELSE date.year >= 1

(***************************************************************************)
(* mayan.rs: the Haab and Tzolkin cycles                                   *)
(***************************************************************************)
MayanHaab(day, month) == [day |-> day, month |-> month]

MAYAN_HAAB_AT_EPOCH == MayanHaab(8, 18)

mayan_haab_from_absolute(absolute_date) ==
    LET long_count == absolute_date + MAYAN_DAYS_BEFORE_ABSOLUTE_ZERO
        day_of_haab ==
            modulus(long_count + MAYAN_HAAB_AT_EPOCH.day
                      + 20 * (MAYAN_HAAB_AT_EPOCH.month - 1),
                    365)
        day == modulus(day_of_haab, 20)
        month == floor_div(day_of_haab, 20) + 1
    IN MayanHaab(day, month)

mayan_haab_difference(d1, d2) ==
    modulus(20 * (d2.month - d1.month) + (d2.day - d1.day), 365)

mayan_haab_on_or_before(d, absolute_date) ==
    absolute_date
      - modulus(absolute_date
                  - mayan_haab_difference(mayan_haab_from_absolute(0), d),
                365)

MayanTzolkin(number, name) == [number |-> number, name |-> name]

MAYAN_TZOLKIN_AT_EPOCH == MayanTzolkin(4, 20)

mayan_tzolkin_from_absolute(absolute_date) ==
    LET long_count == absolute_date + MAYAN_DAYS_BEFORE_ABSOLUTE_ZERO
        number == amod(long_count + MAYAN_TZOLKIN_AT_EPOCH.number, 13)
        name == amod(long_count + MAYAN_TZOLKIN_AT_EPOCH.name, 20)
    IN MayanTzolkin(number, name)

\* As in the source, number_difference is d2.number - d2.number.
mayan_tzolkin_difference(d1, d2) ==
    LET number_difference == d2.number - d2.number
        name_difference == d2.name - d1.name
    IN modulus(number_difference
                 + (13 * modulus(3 * (number_difference - name_difference), 20)),
               260)

mayan_tzolkin_on_or_before(d, absolute_date) ==
    absolute_date
      - modulus(absolute_date
                  - mayan_tzolkin_difference(mayan_tzolkin_from_absolute(0), d),
                260)

\* Mutant: the two cycle offsets added instead of subtracted.
mayan_haab_tzolkin_on_or_before_sum(dh, dt, absolute_date) ==
    LET haab_difference == mayan_haab_difference(mayan_haab_from_absolute(0), dh)
        tzolkin_difference ==
            mayan_tzolkin_difference(mayan_tzolkin_from_absolute(0), dt)
        difference == tzolkin_difference + haab_difference
    IN IF modulus(difference, 5) = 0
       THEN Some(absolute_date
                   - modulus(absolute_date - (haab_difference + (365 * difference)),
                             18980))
       ELSE None

mayan_haab_tzolkin_on_or_before(dh, dt, absolute_date) ==
    LET haab_difference == mayan_haab_difference(mayan_haab_from_absolute(0), dh)
        tzolkin_difference ==
            mayan_tzolkin_difference(mayan_tzolkin_from_absolute(0), dt)
        difference == tzolkin_difference - haab_difference
    IN IF modulus(difference, 5) = 0
       THEN Some(absolute_date
                   - modulus(absolute_date - (haab_difference + (365 * difference)),
                             18980))
       ELSE None

(***************************************************************************)
(* The caller of the calendar round: it takes the Haab date of an absolute *)
(* date x and the Tzolkin date of an absolute date y, and asks for the     *)
(* latest date on or before a that carries both.  x runs over a whole Haab *)
(* year at both ends of the range and y - x over a whole Tzolkin cycle, so *)
(* that every Haab date meets every Tzolkin date.                          *)
(***************************************************************************)
HaabYear == 365

TzolkinCycle == 260

RoundDates == {-Range, 1, Range}

HaabDates == (0..(HaabYear - 1)) \cup ((Range - HaabYear + 1)..Range)
               \cup ((-Range)..(-Range + HaabYear - 1))

InitRound ==
    /\ a \in RoundDates
    /\ pc = "input"
    /\ cal = "none"
    /\ date = None
    /\ res = None

MayanHaabTzolkinFromAbsolute ==
    /\ pc = "input"
    /\ \E x \in HaabDates : \E k \in 0..(TzolkinCycle - 1) :
          date' = [haab |-> mayan_haab_from_absolute(x),
                   tzolkin |-> mayan_tzolkin_from_absolute(x + k)]
    /\ pc' = "date"
    /\ cal' = "mayanHaabTzolkin"
    /\ UNCHANGED <<a, res>>

MayanHaabTzolkinOnOrBefore ==
    /\ pc = "date"
    /\ cal = "mayanHaabTzolkin"
    /\ res' = mayan_haab_tzolkin_on_or_before(date.haab, date.tzolkin, a)
    /\ pc' = "absolute"
    /\ UNCHANGED <<a, cal, date>>

NextRound == MayanHaabTzolkinFromAbsolute \/ MayanHaabTzolkinOnOrBefore

SpecRound == InitRound /\ [][NextRound]_vars

(***************************************************************************)
(* C9: mayan_haab_tzolkin_on_or_before(dh, dt, a) is None exactly when no  *)
(* absolute date carries both the Haab date dh and the Tzolkin date dt     *)
(* (dh and dt in the ranges the from_absolute functions produce); the      *)
(* Haab and Tzolkin dates of one and the same absolute date never give     *)
(* None.  HaabTzolkinPairs holds the pairs carried by the dates of two     *)
(* calendar rounds around absolute date 0.                                 *)
(***************************************************************************)
CalendarRound == 18980

HaabTzolkinPairs ==
    {[haab |-> mayan_haab_from_absolute(z),
      tzolkin |-> mayan_tzolkin_from_absolute(z)] :
        z \in (-CalendarRound)..(CalendarRound - 1)}

NoneExactlyWhenNoSuchDate ==
    (pc = "absolute" /\ cal = "mayanHaabTzolkin") =>
        /\ (res = None) <=> (date \notin HaabTzolkinPairs)
        /\ \A x \in RoundDates :
              mayan_haab_tzolkin_on_or_before(
                  mayan_haab_from_absolute(x), mayan_tzolkin_from_absolute(x), a)
                # None

NoSuchDateWitness ==
    /\ pc = "absolute"
    /\ cal = "mayanHaabTzolkin"
    /\ date = [haab |-> mayan_haab_from_absolute(0),
               tzolkin |-> mayan_tzolkin_from_absolute(1)]
    /\ res = None

(***************************************************************************)
(* C10: when mayan_haab_tzolkin_on_or_before(dh, dt, a) is Some(r), r is   *)
(* on or before a, less than one calendar round before a, and carries both *)
(* the Haab date dh and the Tzolkin date dt.                               *)
(***************************************************************************)
SomeIsLatestDateWithBoth ==
    (pc = "absolute" /\ cal = "mayanHaabTzolkin" /\ res # None) =>
        /\ res.value <= a
        /\ a - res.value < 18980
        /\ mayan_haab_from_absolute(res.value) = date.haab
        /\ mayan_tzolkin_from_absolute(res.value) = date.tzolkin

(***************************************************************************)
(* Natural numbers of any size, for the 53-bit significands of f64 and the *)
(* exact sums, products and quotients they are rounded from: a sequence of *)
(* base-2^15 digits, least significant first, without leading zero digits  *)
(* (0 is the empty sequence).  The numbers have at most nine digits, which *)
(* bounds every recursion over the digits.                                 *)
(***************************************************************************)
Base == 2^15

Digit(x, i) == IF i <= Len(x) THEN x[i] ELSE 0

\* x without its leading zero digits
RECURSIVE NatTrim(_)
NatTrim(x) ==
    IF x = <<>> THEN x
    ELSE IF x[Len(x)] # 0 THEN x
    ELSE NatTrim(SubSeq(x, 1, Len(x) - 1))

\* a non-negative 32-bit integer as a natural number
NatOfInt(n) == NatTrim(<<n % Base, (n \div Base) % Base, n \div (Base * Base)>>)

\* a natural number below 2^31 as an integer
IntOfNat(x) ==
    CASE Len(x) <= 3 -> Digit(x, 1) + Base * Digit(x, 2) + Base * Base * Digit(x, 3)

\* the digits i.. of x + y + c, for a carry c into digit i
RECURSIVE NatAddFrom(_, _, _, _)
NatAddFrom(x, y, i, c) ==
    IF i > Len(x) /\ i > Len(y)
    THEN IF c = 0 THEN <<>> ELSE <<c>>
    ELSE <<(Digit(x, i) + Digit(y, i) + c) % Base>>
             \o NatAddFrom(x, y, i + 1, (Digit(x, i) + Digit(y, i) + c) \div Base)

NatAdd(x, y) == NatAddFrom(x, y, 1, 0)

\* the digits i.. of x - y - b, for a borrow b from digit i
RECURSIVE NatSubFrom(_, _, _, _)
NatSubFrom(x, y, i, b) ==
    IF i > Len(x)
    THEN <<>>
    ELSE <<(x[i] - Digit(y, i) - b) % Base>>
             \o NatSubFrom(x, y, i + 1, IF x[i] - Digit(y, i) - b < 0 THEN 1 ELSE 0)

\* x - y, for y <= x
NatSub(x, y) == NatTrim(NatSubFrom(x, y, 1, 0))

\* x and y of the same length compared from digit i down
RECURSIVE NatCmpFrom(_, _, _)
NatCmpFrom(x, y, i) ==
    IF i = 0 THEN 0
    ELSE IF x[i] < y[i] THEN -1
    ELSE IF x[i] > y[i] THEN 1
    ELSE NatCmpFrom(x, y, i - 1)

\* -1, 0 or 1 as x <, = or > y
NatCmp(x, y) ==
    IF Len(x) < Len(y) THEN -1
    ELSE IF Len(x) > Len(y) THEN 1
    ELSE NatCmpFrom(x, y, Len(x))

\* the digits i.. of x * d + c, for a digit d # 0 and a carry c into digit i
RECURSIVE NatMulDigitFrom(_, _, _, _)
NatMulDigitFrom(x, d, i, c) ==
    IF i > Len(x)
    THEN IF c = 0 THEN <<>> ELSE <<c>>
    ELSE <<(x[i] * d + c) % Base>>
             \o NatMulDigitFrom(x, d, i + 1, (x[i] * d + c) \div Base)

\* x * d for a digit d
NatMulDigit(x, d) == IF d = 0 THEN <<>> ELSE NatMulDigitFrom(x, d, 1, 0)

\* x * Base^k
NatShiftDigits(x, k) == IF x = <<>> THEN <<>> ELSE [i \in 1..k |-> 0] \o x

\* x * y, one digit of y at a time
RECURSIVE NatMul(_, _)
NatMul(x, y) ==
    IF y = <<>> THEN <<>>
    ELSE Let(NatMul(x, Tail(y)),
             LAMBDA t : NatAdd(NatMulDigit(x, y[1]), NatShiftDigits(t, 1)))

\* x * 2^k
NatShl(x, k) == NatShiftDigits(NatMulDigit(x, 2^(k % 15)), k \div 15)

NatShrBits(x, p) ==
    NatTrim([i \in 1..Len(x) |->
                (x[i] \div p) + (Digit(x, i + 1) % p) * (Base \div p)])

\* x \div 2^k
NatShr(x, k) == NatShrBits(SubSeq(x, (k \div 15) + 1, Len(x)), 2^(k % 15))

\* the number of bits of a digit d
BitLen(d) == CHOOSE n \in 0..15 : d < 2^n /\ (n = 0 \/ 2^(n - 1) <= d)

NatBitLen(x) == IF x = <<>> THEN 0 ELSE 15 * (Len(x) - 1) + BitLen(x[Len(x)])

NatOdd(x) == x # <<>> /\ x[1] % 2 = 1

\* The digit d = floor(r / y) of a quotient and the remainder r - y * d, for
\* r < y * Base, from an estimate qhat >= d and t = y * qhat.
RECURSIVE NatQuotDigit(_, _, _, _)
NatQuotDigit(r, y, qhat, t) ==
    IF NatCmp(t, r) <= 0
    THEN [d |-> qhat, r |-> NatSub(r, t)]
    ELSE Let(NatSub(t, y), LAMBDA u : NatQuotDigit(r, y, qhat - 1, u))

\* The estimate is the quotient of the leading bits of r and y (all that
\* lies above the s low bits), which is never below the digit.
NatQuotEstimate(r, y, s) ==
    LET qhat == IntOfNat(NatShr(r, s)) \div IntOfNat(NatShr(y, s))
    IN IF qhat < Base THEN qhat ELSE Base - 1

NatDivStep(r, y, s) ==
    IF NatCmp(r, y) < 0
    THEN [d |-> 0, r |-> r]
    ELSE Let(NatQuotEstimate(r, y, s),
             LAMBDA qhat : NatQuotDigit(r, y, qhat, NatMulDigit(y, qhat)))

\* Long division of the digits 1..i of x by y, one digit of the quotient per
\* step from the most significant digit of x down, after the digits q of the
\* quotient and the remainder r of the digits above i.
RECURSIVE NatDivFrom(_, _, _, _, _, _)
NatDivFrom(x, y, s, i, q, r) ==
    IF i = 0
    THEN [q |-> NatTrim(q), r |-> r]
    ELSE Let(NatDivStep(NatTrim(<<x[i]>> \o r), y, s),
             LAMBDA h : NatDivFrom(x, y, s, i - 1, <<h.d>> \o q, h.r))

\* quotient q and remainder r of x by y # 0
NatDivMod(x, y) ==
    NatDivFrom(x, y, IF NatBitLen(y) > 15 THEN NatBitLen(y) - 15 ELSE 0,
               Len(x), <<>>, <<>>)

(***************************************************************************)
(* f64: IEEE 754 binary64 with round to nearest, ties to even.  A value is *)
(* sign * man * 2^exp with man below 2^53.  The values of the calendar     *)
(* code are finite and far from the ends of the exponent range.            *)
(***************************************************************************)
F64(sign, man, exp) == [sign |-> sign, man |-> man, exp |-> exp]

F64RoundUp(sign, q, e) ==
    IF NatBitLen(q) = 54 THEN F64(sign, NatShr(q, 1), e + 1) ELSE F64(sign, q, e)

F64RoundTo(sign, n, e, sh, q) ==
    LET c == NatCmp(NatSub(n, NatShl(q, sh)), NatShl(<<1>>, sh - 1))
    IN IF c > 0 \/ (c = 0 /\ NatOdd(q))
       THEN F64RoundUp(sign, NatAdd(q, <<1>>), e + sh)
       ELSE F64(sign, q, e + sh)

F64RoundBy(sign, n, e, sh) ==
    IF sh <= 0 THEN F64(sign, n, e) ELSE F64RoundTo(sign, n, e, sh, NatShr(n, sh))

\* the f64 nearest to sign * n * 2^e
F64Round(sign, n, e) == F64RoundBy(sign, n, e, NatBitLen(n) - 53)

\* `i as f64`, exact for the 32-bit integers of the model
F64FromInt(i) == F64(IF i < 0 THEN -1 ELSE 1, NatOfInt(IF i < 0 THEN -i ELSE i), 0)

F64Neg(x) == F64(-x.sign, x.man, x.exp)

F64AddAligned(sx, nx, sy, ny, e) ==
    IF sx = sy THEN F64Round(sx, NatAdd(nx, ny), e)
    ELSE IF NatCmp(nx, ny) >= 0 THEN F64Round(sx, NatSub(nx, ny), e)
    ELSE F64Round(sy, NatSub(ny, nx), e)

F64AddAt(x, y, e) ==
    F64AddAligned(x.sign, NatShl(x.man, x.exp - e), y.sign, NatShl(y.man, y.exp - e), e)

F64Add(x, y) ==
    IF x.man = <<>> THEN y
    ELSE IF y.man = <<>> THEN x
    ELSE F64AddAt(x, y, IF x.exp < y.exp THEN x.exp ELSE y.exp)

F64Sub(x, y) == F64Add(x, F64Neg(y))

F64Mul(x, y) ==
    IF x.man = <<>> \/ y.man = <<>>
    THEN F64(x.sign * y.sign, <<>>, 0)
    ELSE F64Round(x.sign * y.sign, NatMul(x.man, y.man), x.exp + y.exp)

F64DivBy(x, y, k, dm) ==
    F64Round(x.sign * y.sign,
             NatAdd(NatAdd(dm.q, dm.q), IF dm.r = <<>> THEN <<>> ELSE <<1>>),
             x.exp - y.exp - k - 1)

F64DivAt(x, y, k) == F64DivBy(x, y, k, NatDivMod(NatShl(x.man, k), y.man))

\* x / y for y # 0: 55 or 56 quotient bits and a sticky bit, then rounded
F64Div(x, y) ==
    IF x.man = <<>> THEN F64(x.sign * y.sign, <<>>, 0)
    ELSE F64DivAt(x, y, 55 + NatBitLen(y.man) - NatBitLen(x.man))

F64RemAt(x, y, e) ==
    F64(x.sign, NatDivMod(NatShl(x.man, x.exp - e), NatShl(y.man, y.exp - e)).r, e)

\* x % y on f64 (fmod): exact, with the sign of x
F64Rem(x, y) ==
    IF x.man = <<>> THEN x ELSE F64RemAt(x, y, IF x.exp < y.exp THEN x.exp ELSE y.exp)

F64FloorOf(x, q) ==
    IF x.sign < 0 /\ NatShl(q, -x.exp) # x.man
    THEN F64(x.sign, NatAdd(q, <<1>>), 0)
    ELSE F64(x.sign, q, 0)

\* x.floor()
F64Floor(x) == IF x.exp >= 0 THEN x ELSE F64FloorOf(x, NatShr(x.man, -x.exp))

\* `x as i64`, truncating; the values converted fit the integers of the model
F64ToInt(x) ==
    x.sign * IntOfNat(IF x.exp >= 0 THEN NatShl(x.man, x.exp) ELSE NatShr(x.man, -x.exp))

\* modulus::<f64>
modulus_f64(a_, b) == F64Rem(F64Add(F64Rem(a_, b), b), b)


(***************************************************************************)
(* hindu.rs                                                                *)
(***************************************************************************)
SOLAR_SIDEREAL_YEAR ==
    F64Add(F64FromInt(365), F64Div(F64FromInt(279457), F64FromInt(1080000)))

SOLAR_MONTH == F64Div(SOLAR_SIDEREAL_YEAR, F64FromInt(12))

LUNAR_SIDEREAL_MONTH ==
    F64Add(F64FromInt(27), F64Div(F64FromInt(4644439), F64FromInt(14438334)))

LUNAR_SYNODIC_MONTH ==
    F64Add(F64FromInt(29), F64Div(F64FromInt(7087771), F64FromInt(13358334)))

OldHinduSolar(year, month, day) == [year |-> year, month |-> month, day |-> day]

solar_longitude(days) ==
    F64Mul(modulus_f64(F64Div(days, SOLAR_SIDEREAL_YEAR), F64FromInt(1)),
           F64FromInt(360))

zodiac(days) ==
    F64ToInt(F64Add(F64Floor(F64Div(solar_longitude(days), F64FromInt(30))),
                    F64FromInt(1)))

old_hindu_solar_from_absolute(absolute_date) ==
    Let(F64Add(F64Add(F64FromInt(absolute_date), F64FromInt(1132959)),
               F64Div(F64FromInt(1), F64FromInt(4))),
        LAMBDA h_date :
    OldHinduSolar(
        F64ToInt(F64Floor(F64Div(h_date, SOLAR_SIDEREAL_YEAR))),
        zodiac(h_date),
        F64ToInt(F64Add(F64Floor(modulus_f64(h_date, SOLAR_MONTH)),
                        F64FromInt(1)))))

\* Mutant: sunrise (the quarter day) is not taken off.
absolute_from_old_hindu_solar_no_sunrise(d) ==
    LET year == d.year
        month == d.month
        day == d.day
    IN F64ToInt(F64Floor(
           F64Sub(F64Add(F64Add(F64Mul(F64FromInt(year), SOLAR_SIDEREAL_YEAR),
                                F64Mul(F64FromInt(month - 1), SOLAR_MONTH)),
                         F64FromInt(day)),
                  F64FromInt(1132959))))

absolute_from_old_hindu_solar(d) ==
    LET year == d.year
        month == d.month
        day == d.day
    IN F64ToInt(F64Floor(
           F64Sub(F64Sub(F64Add(F64Add(F64Mul(F64FromInt(year), SOLAR_SIDEREAL_YEAR),
                                       F64Mul(F64FromInt(month - 1), SOLAR_MONTH)),
                                F64FromInt(day)),
                         F64Div(F64FromInt(1), F64FromInt(4))),
                  F64FromInt(1132959))))

OldHinduLunar(year, month, leap_month, day) ==
    [year |-> year, month |-> month, leap_month |-> leap_month, day |-> day]

lunar_longitude(days) ==
    F64Mul(modulus_f64(F64Div(days, LUNAR_SIDEREAL_MONTH), F64FromInt(1)),
           F64FromInt(360))

lunar_phase(days) ==
    F64ToInt(F64Add(F64FromInt(1),
                    F64Floor(F64Div(modulus_f64(F64Sub(lunar_longitude(days),
                                                       solar_longitude(days)),
                                                F64FromInt(360)),
                                    F64FromInt(12)))))

new_moon(days) == F64Sub(days, modulus_f64(days, LUNAR_SYNODIC_MONTH))

old_hindu_lunar_from_absolute(absolute_date) ==
    Let(absolute_date + 1132959,
        LAMBDA h_date :
    Let(F64Add(F64FromInt(h_date), F64Div(F64FromInt(1), F64FromInt(4))),
        LAMBDA sunrise :
    Let(new_moon(sunrise),
        LAMBDA last_new_moon :
    Let(F64Add(last_new_moon, LUNAR_SYNODIC_MONTH),
        LAMBDA next_new_moon :
    Let(lunar_phase(sunrise),
        LAMBDA day :
    Let(amod(zodiac(last_new_moon) + 1, 12),
        LAMBDA month :
    Let(zodiac(last_new_moon) = zodiac(next_new_moon),
        LAMBDA leap_month :
    Let(F64Add(next_new_moon,
               IF leap_month THEN LUNAR_SYNODIC_MONTH ELSE F64FromInt(0)),
        LAMBDA next_month :
    Let(F64ToInt(F64Floor(F64Div(next_month, SOLAR_SIDEREAL_YEAR))),
        LAMBDA year :
    OldHinduLunar(year, month, leap_month, day))))))))))

old_hindu_lunar_precedes(d1, d2) ==
    LET year_1 == d1.year
        year_2 == d2.year
        month_1 == d1.month
        month_2 == d2.month
        leap_month_1 == d1.leap_month
        leap_month_2 == d2.leap_month
        day_1 == d1.day
        day_2 == d2.day
    IN \/ year_1 < year_2
       \/ /\ year_1 = year_2
          /\ \/ month_1 < month_2
             \/ /\ month_1 = month_2
                /\ \/ (leap_month_1 /\ ~leap_month_2)
                   \/ ((leap_month_1 = leap_month_2) /\ (day_1 < day_2))

\* Mutant: the candidate is accepted without the comparison with the date.
absolute_from_old_hindu_lunar_unverified(d) ==
    Let(d.year,
        LAMBDA years :
    Let(d.month - 2,
        LAMBDA months :
    Let(F64ToInt(F64Floor(F64Mul(F64FromInt(years), SOLAR_SIDEREAL_YEAR)))
          + F64ToInt(F64Floor(F64Mul(F64FromInt(months), LUNAR_SYNODIC_MONTH)))
          - 1132959,
        LAMBDA approx :
    Let(LET p(i) == old_hindu_lunar_precedes(old_hindu_lunar_from_absolute(i), d)
        IN approx + sum(One, approx, p),
        LAMBDA try_value :
    Some(try_value)))))

absolute_from_old_hindu_lunar(d) ==
    Let(d.year,
        LAMBDA years :
    Let(d.month - 2,
        LAMBDA months :
    Let(F64ToInt(F64Floor(F64Mul(F64FromInt(years), SOLAR_SIDEREAL_YEAR)))
          + F64ToInt(F64Floor(F64Mul(F64FromInt(months), LUNAR_SYNODIC_MONTH)))
          - 1132959,
        LAMBDA approx :
    Let(LET p(i) == old_hindu_lunar_precedes(old_hindu_lunar_from_absolute(i), d)
        IN approx + sum(One, approx, p),
        LAMBDA try_value :
    IF old_hindu_lunar_from_absolute(try_value) = d
    THEN Some(try_value)
    ELSE None))))


(***************************************************************************)
(* The caller: the Old Hindu calendars                                     *)
(***************************************************************************)
HinduStride == 199999

\* The ends of the range, the origin, a day before a skipped lunar day
\* (day 18 is followed by day 20) and the first day of a leap month.
HinduAnchors == {-Range, Range, 0, 29, 957}

HinduDates ==
    {k * HinduStride : k \in (-(Range \div HinduStride))..(Range \div HinduStride)}
        \cup Around(HinduAnchors)

InitHindu ==
    /\ a \in HinduDates
    /\ pc = "input"
    /\ cal = "none"
    /\ date = None
    /\ res = None

OldHinduSolarFromAbsolute ==
    /\ pc = "input"
    /\ date' = old_hindu_solar_from_absolute(a)
    /\ cal' = "oldHinduSolar"
    /\ pc' = "date"
    /\ UNCHANGED <<a, res>>

AbsoluteFromOldHinduSolar ==
    /\ pc = "date" /\ cal = "oldHinduSolar"
    /\ res' = absolute_from_old_hindu_solar(date)
    /\ pc' = "absolute"
    /\ UNCHANGED <<a, cal, date>>

OldHinduLunarFromAbsolute ==
    /\ pc = "input"
    /\ date' = old_hindu_lunar_from_absolute(a)
    /\ cal' = "oldHinduLunar"
    /\ pc' = "date"
    /\ UNCHANGED <<a, res>>

AbsoluteFromOldHinduLunar ==
    /\ pc = "date" /\ cal = "oldHinduLunar"
    /\ res' = absolute_from_old_hindu_lunar(date)
    /\ pc' = "absolute"
    /\ UNCHANGED <<a, cal, date>>

NextHindu ==
    \/ OldHinduSolarFromAbsolute
    \/ AbsoluteFromOldHinduSolar
    \/ OldHinduLunarFromAbsolute
    \/ AbsoluteFromOldHinduLunar

SpecHindu == InitHindu /\ [][NextHindu]_vars

(***************************************************************************)
(* C4: for every a in -1000000..1000000 the Old Hindu conversions round    *)
(* trip: the solar date of a converts back to a, and the lunar date of a   *)
(* converts back to Some(a), so the search from the approximation neither  *)
(* starts after a nor stops before a.                                      *)
(***************************************************************************)
RoundTripOldHindu ==
    (pc = "absolute" /\ InRange(a)) =>
        /\ cal = "oldHinduSolar" => res = a
        /\ cal = "oldHinduLunar" => res = Some(a)

\* The first day of a leap month has made the lunar round trip.
RoundTripOldHinduWitness ==
    /\ pc = "absolute" /\ cal = "oldHinduLunar"
    /\ date = OldHinduLunar(3104, 7, TRUE, 1)
    /\ res = Some(a)

(***************************************************************************)
(* utility.rs: the generic Date and the Calendar trait.  A call either     *)
(* returns a value or panics; Date carries the calendar tag and the        *)
(* components (the name lists take no part in a conversion).               *)
(***************************************************************************)
Panic == [ok |-> FALSE]

Return(v) == [ok |-> TRUE, value |-> v]

Date(calendar, components) == [calendar |-> calendar, components |-> components]

\* d.components[0], ..: an index past the end panics
gregorian_from_date(d) ==
    IF Len(d.components) < 3 THEN Panic
    ELSE Return(Gregorian(d.components[1], d.components[2], d.components[3]))

iso_from_date(d) ==
    IF Len(d.components) < 3 THEN Panic
    ELSE Return(Iso(d.components[1], d.components[2], d.components[3]))

julian_from_date(d) ==
    IF Len(d.components) < 3 THEN Panic
    ELSE Return(Julian(d.components[1], d.components[2], d.components[3]))

islamic_from_date(d) ==
    IF Len(d.components) < 3 THEN Panic
    ELSE Return(Islamic(d.components[1], d.components[2], d.components[3]))

hebrew_from_date(d) ==
    IF Len(d.components) < 3 THEN Panic
    ELSE Return(Hebrew(d.components[1], d.components[2], d.components[3]))

mayan_long_count_from_date(d) ==
    IF Len(d.components) < 5 THEN Panic
    ELSE Return(MayanLongCount(d.components[1], d.components[2], d.components[3],
                               d.components[4], d.components[5]))

mayan_haab_from_date(d) ==
    IF Len(d.components) < 2 THEN Panic
    ELSE Return(MayanHaab(d.components[1], d.components[2]))

mayan_tzolkin_from_date(d) ==
    IF Len(d.components) < 2 THEN Panic
    ELSE Return(MayanTzolkin(d.components[1], d.components[2]))

french_from_date(d) ==
    IF Len(d.components) < 3 THEN Panic
    ELSE Return(French(d.components[1], d.components[2], d.components[3]))

old_hindu_solar_from_date(d) ==
    IF Len(d.components) < 3 THEN Panic
    ELSE Return(OldHinduSolar(d.components[1], d.components[2], d.components[3]))

old_hindu_lunar_from_date(d) ==
    IF Len(d.components) < 4 THEN Panic
    ELSE Return(OldHinduLunar(d.components[1], d.components[2],
                              d.components[3] = 1, d.components[4]))

\* impl Calendar for ..: to_date, and to_absolute where it panics
Gregorian_to_date(self) == Date("gregorian", <<self.year, self.month, self.day>>)

Iso_to_date(self) == Date("iso", <<self.year, self.week, self.day>>)

Julian_to_date(self) == Date("julian", <<self.year, self.month, self.day>>)

Islamic_to_date(self) == Date("islamic", <<self.year, self.month, self.day>>)

Hebrew_to_date(self) == Date("hebrew", <<self.year, self.month, self.day>>)

MayanLongCount_to_date(self) ==
    Date("mayanLongCount", <<self.baktun, self.katun, self.tun, self.uinal, self.kin>>)

MayanHaab_to_date(self) == Date("mayanHaab", <<self.day, self.month>>)

\* Mutant: the latest date on or before absolute date 0 with this haab date.
MayanHaab_to_absolute_on_or_before(self) == Return(mayan_haab_on_or_before(self, 0))

MayanHaab_to_absolute(self) == Panic

MayanTzolkin_to_date(self) == Date("mayanTzolkin", <<self.number, self.name>>)

MayanTzolkin_to_absolute(self) == Panic

French_to_date(self) == Date("french", <<self.year, self.month, self.day>>)

OldHinduSolar_to_date(self) ==
    Date("oldHinduSolar", <<self.year, self.month, self.day>>)

OldHinduLunar_to_date(self) == Date("gregorian", <<self.year, self.month, self.day>>)

\* Option::unwrap
unwrap(o) == IF o.some THEN Return(o.value) ELSE Panic

\* Box<dyn Calendar>: the value with its type
Box(type, r) == IF r.ok THEN Return([type |-> type, value |-> r.value]) ELSE Panic

\* Date::to_calendar_date
to_calendar_date(self) ==
    CASE self.calendar = "gregorian" -> Box("Gregorian", gregorian_from_date(self))
      [] self.calendar = "iso" -> Box("Iso", iso_from_date(self))
      [] self.calendar = "julian" -> Box("Julian", julian_from_date(self))
      [] self.calendar = "islamic" -> Box("Islamic", islamic_from_date(self))
      [] self.calendar = "hebrew" -> Box("Hebrew", hebrew_from_date(self))
      [] self.calendar = "mayanLongCount" ->
            Box("MayanLongCount", mayan_long_count_from_date(self))
      [] self.calendar = "mayanHaab" -> Box("MayanHaab", mayan_haab_from_date(self))
      [] self.calendar = "mayanTzolkin" ->
            Box("MayanTzolkin", mayan_tzolkin_from_date(self))
      [] self.calendar = "french" -> Box("French", french_from_date(self))
      [] self.calendar = "oldHinduSolar" ->
            Box("OldHinduSolar", old_hindu_solar_from_date(self))
      [] self.calendar = "oldHinduLunar" ->
            Box("OldHinduLunar", old_hindu_lunar_from_date(self))
      [] OTHER -> Box("Gregorian", gregorian_from_date(self))

\* to_absolute on a Box<dyn Calendar>: the to_absolute of the type of the
\* value
Calendar_to_absolute(c) ==
    CASE c.type = "Gregorian" -> Return(absolute_from_gregorian(c.value))
      [] c.type = "Iso" -> Return(absolute_from_iso(c.value))
      [] c.type = "Julian" -> Return(absolute_from_julian(c.value))
      [] c.type = "Islamic" -> Return(absolute_from_islamic(c.value))
      [] c.type = "Hebrew" -> Return(absolute_from_hebrew(c.value))
      [] c.type = "MayanLongCount" -> Return(absolute_from_mayan_long_count(c.value))
      [] c.type = "MayanHaab" -> MayanHaab_to_absolute(c.value)
      [] c.type = "MayanTzolkin" -> MayanTzolkin_to_absolute(c.value)
      [] c.type = "French" -> Return(absolute_from_french(c.value))
      [] c.type = "OldHinduSolar" -> Return(absolute_from_old_hindu_solar(c.value))
      [] c.type = "OldHinduLunar" -> unwrap(absolute_from_old_hindu_lunar(c.value))

\* Date::to_absolute
Date_to_absolute(self) ==
    LET c == to_calendar_date(self)
    IN IF c.ok THEN Calendar_to_absolute(c.value) ELSE Panic

\* the match of Date::convert_to, once self.to_absolute() has returned date_
convert_to_from(date_, calendar) ==
    CASE calendar = "gregorian" -> Gregorian_to_date(gregorian_from_absolute(date_))
      [] calendar = "iso" -> Iso_to_date(iso_from_absolute(date_))
      [] calendar = "julian" -> Julian_to_date(julian_from_absolute(date_))
      [] calendar = "islamic" -> Islamic_to_date(islamic_from_absolute(date_))
      [] calendar = "hebrew" -> Hebrew_to_date(hebrew_from_absolute(date_))
      [] calendar = "mayanLongCount" ->
            MayanLongCount_to_date(mayan_long_count_from_absolute(date_))
      [] calendar = "mayanHaab" -> MayanHaab_to_date(mayan_haab_from_absolute(date_))
      [] calendar = "mayanTzolkin" ->
            MayanTzolkin_to_date(mayan_tzolkin_from_absolute(date_))
      [] calendar = "french" -> French_to_date(french_from_absolute(date_))
      [] calendar = "oldHinduSolar" ->
            OldHinduSolar_to_date(old_hindu_solar_from_absolute(date_))
      [] calendar = "oldHinduLunar" ->
            OldHinduLunar_to_date(old_hindu_lunar_from_absolute(date_))
      [] OTHER -> Gregorian_to_date(gregorian_from_absolute(date_))

convert_to_of(r, calendar) ==
    IF r.ok THEN Return(convert_to_from(r.value, calendar)) ELSE Panic

\* Date::convert_to
Date_convert_to(self, calendar) == convert_to_of(Date_to_absolute(self), calendar)

(***************************************************************************)
(* The caller: the Calendar trait on the Mayan cyclical dates, and the     *)
(* generic dispatch from the Gregorian date of a                           *)
(***************************************************************************)
Calendars == {"gregorian", "iso", "julian", "islamic", "hebrew", "mayanLongCount",
              "mayanHaab", "mayanTzolkin", "french", "oldHinduSolar",
              "oldHinduLunar"}

\* the ends of the range, the origin (before the Islamic and the French
\* epoch) and the first day of an Old Hindu leap month
DispatchDates == {-Range, 0, 957, Range}

\* field values in and out of the ranges of the cyclical dates
FieldValues == {-Range, -1, 0, 8, 18, 19, 20, Range}

InitDate ==
    /\ a \in DispatchDates
    /\ pc = "input"
    /\ cal = "none"
    /\ date = None
    /\ res = None

MayanHaabNew ==
    /\ pc = "input"
    /\ \E day \in FieldValues, month \in FieldValues :
          date' = [type |-> "MayanHaab", value |-> MayanHaab(day, month)]
    /\ cal' = "MayanHaab"
    /\ pc' = "boxed"
    /\ UNCHANGED <<a, res>>

MayanTzolkinNew ==
    /\ pc = "input"
    /\ \E number \in FieldValues, name \in FieldValues :
          date' = [type |-> "MayanTzolkin", value |-> MayanTzolkin(number, name)]
    /\ cal' = "MayanTzolkin"
    /\ pc' = "boxed"
    /\ UNCHANGED <<a, res>>

CalendarToAbsolute ==
    /\ pc = "boxed"
    /\ res' = Calendar_to_absolute(date)
    /\ pc' = "absolute"
    /\ UNCHANGED <<a, cal, date>>

GregorianToDate ==
    /\ pc = "input"
    /\ date' = Gregorian_to_date(gregorian_from_absolute(a))
    /\ cal' = "gregorian"
    /\ pc' = "generic"
    /\ UNCHANGED <<a, res>>

\* convert_to on the Gregorian date of a, and on the Date it returned
DateConvertTo ==
    /\ pc \in {"generic", "converted"}
    /\ \E t \in Calendars :
          /\ res' = Date_convert_to(date, t)
          /\ cal' = IF pc = "generic" THEN t ELSE cal
    /\ date' = IF pc = "generic" /\ res'.ok THEN res'.value ELSE date
    /\ pc' = IF ~res'.ok THEN "failed"
             ELSE IF pc = "generic" THEN "converted"
             ELSE "dispatched"
    /\ UNCHANGED a

DateToAbsolute ==
    /\ pc = "converted"
    /\ res' = Date_to_absolute(date)
    /\ pc' = IF res'.ok THEN "dispatched" ELSE "failed"
    /\ UNCHANGED <<a, cal, date>>

NextDate ==
    \/ MayanHaabNew
    \/ MayanTzolkinNew
    \/ CalendarToAbsolute
    \/ GregorianToDate
    \/ DateConvertTo
    \/ DateToAbsolute

SpecDate == InitDate /\ [][NextDate]_vars

(***************************************************************************)
(* C7: Calendar::to_absolute on a MayanHaab or a MayanTzolkin value fails  *)
(* (panics) for every field value; it never returns an absolute date.      *)
(***************************************************************************)
CyclicalToAbsoluteFails ==
    (pc = "absolute" /\ cal \in {"MayanHaab", "MayanTzolkin"}) => ~res.ok

\* to_absolute has been called on the haab date of the Mayan epoch.
CyclicalToAbsoluteWitness ==
    /\ pc = "absolute"
    /\ date = [type |-> "MayanHaab", value |-> MAYAN_HAAB_AT_EPOCH]
    /\ ~res.ok

(***************************************************************************)
(* C8: the failure of to_absolute on a haab or tzolkin date is not         *)
(* reachable through the generic dispatch: for every absolute date a and   *)
(* each of the eleven tags t, the Date that convert_to(t) makes of the     *)
(* Gregorian date of a passes through Date::to_absolute and                *)
(* Date::convert_to without failing.                                       *)
(***************************************************************************)
DispatchNeverFails ==
    (pc \in {"converted", "failed", "dispatched"} /\ cal \in Calendars) => res.ok

(***************************************************************************)
(* The caller: Old Hindu lunar dates that need not be the date of any day. *)
(* OldHinduLunar::new takes the year and the month of the lunar date of a, *)
(* either leap flag, and a day at most DayShift away from the day of that  *)
(* date; the date is then converted to an absolute date.                   *)
(***************************************************************************)
DayShift == 1

\* The ends of the range, the origin, the days around a skipped lunar day
\* (day 18 is followed by day 20) and around the first day of a leap month.
LunarDates == {-Range, 0, Range} \cup (28..30) \cup (956..958)

InitLunar ==
    /\ a \in LunarDates
    /\ pc = "input"
    /\ cal = "none"
    /\ date = None
    /\ res = None

OldHinduLunarNew ==
    /\ pc = "input"
    /\ \E leap_month \in BOOLEAN, k \in (-DayShift)..DayShift :
          LET d == old_hindu_lunar_from_absolute(a)
          IN date' = OldHinduLunar(d.year, d.month, leap_month, d.day + k)
    /\ cal' = "oldHinduLunar"
    /\ pc' = "date"
    /\ UNCHANGED <<a, res>>

NextLunar == OldHinduLunarNew \/ AbsoluteFromOldHinduLunar

SpecLunar == InitLunar /\ [][NextLunar]_vars

(***************************************************************************)
(* C11: absolute_from_old_hindu_lunar(d) never returns a wrong date: when  *)
(* it returns Some(v), the lunar date of v is d in all four fields, and it *)
(* returns None for every d that is the date of no day.  d has the year    *)
(* and the month of the lunar date of a, and the days of one lunar year    *)
(* and month (a leap month and the month after it) are less than LunarSpan *)
(* days apart, so d is the date of no day when it is the date of no day    *)
(* from a - LunarSpan to a + LunarSpan.                                    *)
(***************************************************************************)
LunarSpan == 60

NeverAWrongLunarDate ==
    (pc = "absolute" /\ cal = "oldHinduLunar") =>
        /\ res # None => old_hindu_lunar_from_absolute(res.value) = date
        /\ \/ res = None
           \/ \E v \in (a - LunarSpan)..(a + LunarSpan) :
                 old_hindu_lunar_from_absolute(v) = date

\* The date of a with the leap flag negated is the date of no day, and the
\* conversion returned None.
NeverAWrongLunarDateWitness ==
    /\ pc = "absolute" /\ cal = "oldHinduLunar"
    /\ date.day = old_hindu_lunar_from_absolute(a).day
    /\ date.leap_month # old_hindu_lunar_from_absolute(a).leap_month
    /\ res = None

(***************************************************************************)
(* The caller: from calendar A to calendar B and back.  The Date d is the  *)
(* to_date of A's from_absolute(a); `cal` is the tag A, `date` is d, and   *)
(* `res` is what convert_to returned, first d.convert_to(B) and then       *)
(* d.convert_to(B).convert_to(A).                                          *)
(***************************************************************************)
InitCross ==
    /\ a \in DispatchDates
    /\ pc = "input"
    /\ cal = "none"
    /\ date = None
    /\ res = None

CalendarToDate ==
    /\ pc = "input"
    /\ \E t \in Calendars :
          /\ date' = convert_to_from(a, t)
          /\ cal' = t
    /\ pc' = "generic"
    /\ UNCHANGED <<a, res>>

ConvertTo ==
    /\ pc = "generic"
    /\ \E t \in Calendars : res' = Date_convert_to(date, t)
    /\ pc' = IF res'.ok THEN "there" ELSE "failed"
    /\ UNCHANGED <<a, cal, date>>

ConvertBack ==
    /\ pc = "there"
    /\ res' = Date_convert_to(res.value, cal)
    /\ pc' = IF res'.ok THEN "back" ELSE "failed"
    /\ UNCHANGED <<a, cal, date>>

NextCross == CalendarToDate \/ ConvertTo \/ ConvertBack

SpecCross == InitCross /\ [][NextCross]_vars

(***************************************************************************)
(* C12: for every pair of calendars A and B among the eleven and every     *)
(* Date d of calendar A made from A's from_absolute (the all-zero Islamic  *)
(* and French dates apart), d.convert_to(B).convert_to(A) is made, and has *)
(* the calendar tag and the components of d.                               *)
(***************************************************************************)
CrossCalendarIdentity ==
    (pc \in {"there", "back", "failed"} /\ date.components # <<0, 0, 0>>) =>
        /\ res.ok
        /\ pc = "back" =>
              /\ res.value.calendar = date.calendar
              /\ res.value.components = date.components

(***************************************************************************)
(* C13: for each of the eleven tags t, convert_to(t) returns a Date whose  *)
(* calendar tag is t and whose components are, in field order, the fields  *)
(* of t's from_absolute applied to self.to_absolute() (year, month,        *)
(* leapMonth, day for oldHinduLunar), and to_calendar_date on the result   *)
(* rebuilds the calendar date that from_absolute returned.  Here self is   *)
(* the Gregorian Date of a, and `date` is what convert_to(cal) returned.   *)
(***************************************************************************)
FromAbsoluteOf(t, x) ==
    CASE t = "gregorian" -> gregorian_from_absolute(x)
      [] t = "iso" -> iso_from_absolute(x)
      [] t = "julian" -> julian_from_absolute(x)
      [] t = "islamic" -> islamic_from_absolute(x)
      [] t = "hebrew" -> hebrew_from_absolute(x)
      [] t = "mayanLongCount" -> mayan_long_count_from_absolute(x)
      [] t = "mayanHaab" -> mayan_haab_from_absolute(x)
      [] t = "mayanTzolkin" -> mayan_tzolkin_from_absolute(x)
      [] t = "french" -> french_from_absolute(x)
      [] t = "oldHinduSolar" -> old_hindu_solar_from_absolute(x)
      [] t = "oldHinduLunar" -> old_hindu_lunar_from_absolute(x)

FieldsOf(t, d) ==
    CASE t = "iso" -> <<d.year, d.week, d.day>>
      [] t = "mayanLongCount" -> <<d.baktun, d.katun, d.tun, d.uinal, d.kin>>
      [] t = "mayanHaab" -> <<d.day, d.month>>
      [] t = "mayanTzolkin" -> <<d.number, d.name>>
      [] t = "oldHinduLunar" ->
            <<d.year, d.month, IF d.leap_month THEN 1 ELSE 0, d.day>>
      [] OTHER -> <<d.year, d.month, d.day>>

ConvertToIsFromAbsolute ==
    (pc = "converted" /\ cal \in Calendars) =>
        LET self == Gregorian_to_date(gregorian_from_absolute(a))
            d == FromAbsoluteOf(cal, Date_to_absolute(self).value)
        IN /\ date.calendar = cal
           /\ date.components = FieldsOf(cal, d)
           /\ to_calendar_date(date).ok
           /\ to_calendar_date(date).value.value = d

(***************************************************************************)
(* utility.rs: Calendar::format.  The month name is read from a table of   *)
(* names at the index `(month - 1) as usize`; a negative i64 becomes an    *)
(* index beyond every table, and an index beyond the table panics.         *)
(***************************************************************************)
GREGORIAN_MONTH_NAMES ==
    <<"January", "February", "March", "April", "May", "June", "July", "August",
      "September", "October", "November", "December">>

ISLAMIC_MONTH_NAMES ==
    <<"Muharram", "Safar", "Rabi I", "Rabi II", "Jumada I", "Jumada II", "Rajab",
      "Sha' Ban", "Ramadan", "Shawwal", "Dhu al-Qada", "Dhu al-Hijjah">>

HEBREW_MONTH_NAMES ==
    <<"Nisan", "Iyyar", "Sivan", "Tammuz", "Av", "Elul", "Tishri", "Heshvan",
      "Kislev", "Teveth", "Shevat", "Adar ", "Adar I", "Adar II">>

MAYAN_MONTH_NAMES ==
    <<"Pop", "Uo", "Zip", "Zotz", "Tzec", "Xul", "Yaxkin", "Mol", "Chen", "Yax",
      "Zac", "Ceh", "Mac", "Kankin", "Muan", "Pax", "Kayab", "Cumku", "Uayeb">>

MAYAN_TZOLKIN_NAMES ==
    <<"Imix", "Ik", "Akbal", "Kan", "Chiccan", "Cimi", "Manik", "Lamat", "Muluc",
      "Oc", "Chuen", "Eb", "Ben", "Ix", "Men", "Cib", "Caban", "Etznab", "Cauac",
      "Ahau">>

FRENCH_MONTH_NAMES ==
    <<"Vendémiare", "Brumaire", "Frimaire", "Nivôse", "Pluviôse", "Ventôse",
      "Germinal", "Floréal", "Prairial", "Messidor", "Thermidor", "Fructidor",
      "Sansculottides">>

HINDU_SOLAR_MONTH_NAMES ==
    <<"Mesha", "Vrshabha", "Mithuna", "Karka", "Simha", "Kanya", "Tula",
      "Vrischika", "Dhanus", "Makara", "Kumbha", "Mina">>

HINDU_LUNAR_MONTH_NAMES ==
    <<"Chaitra", "Vaisakha", "Jyaishtha", "Ashadha", "Sravana", "Bhadrapada",
      "Asvina", "Kartika", "Margasira", "Pausha", "Magha", "Phalguna">>

\* table[i as usize]
Index(table, i) ==
    IF 0 <= i /\ i < Len(table) THEN Return(table[i + 1]) ELSE Panic

\* day + " " + name + " " + year, once the name has been read
day_month_year(self, name) ==
    IF name.ok
    THEN Return(ToString(self.day) \o " " \o name.value \o " " \o ToString(self.year))
    ELSE Panic

\* format on a Box<dyn Calendar>: the format of the type of the value
Calendar_format(c) ==
    LET self == c.value
    IN CASE c.type = "Gregorian" ->
              day_month_year(self, Index(GREGORIAN_MONTH_NAMES, self.month - 1))
         [] c.type = "Iso" ->
              Return(ToString(self.year) \o "-W" \o ToString(self.week)
                       \o "-" \o ToString(self.day))
         [] c.type = "Julian" ->
              day_month_year(self, Index(GREGORIAN_MONTH_NAMES, self.month - 1))
         [] c.type = "Islamic" ->
              day_month_year(self, Index(ISLAMIC_MONTH_NAMES, self.month - 1))
         [] c.type = "Hebrew" ->
              day_month_year(self,
                  IF hebrew_leap_year(self.year) /\ self.month = 12
                  THEN Return("Adar I")
                  ELSE IF hebrew_leap_year(self.year) /\ self.month = 13
                  THEN Return("Adar II")
                  ELSE Index(HEBREW_MONTH_NAMES, self.month - 1))
         [] c.type = "MayanLongCount" ->
              Return(ToString(self.baktun) \o "." \o ToString(self.katun)
                       \o "." \o ToString(self.tun) \o "." \o ToString(self.uinal)
                       \o "." \o ToString(self.kin))
         [] c.type = "MayanHaab" ->
              LET name == Index(MAYAN_MONTH_NAMES, self.month - 1)
              IN IF name.ok
                 THEN Return(ToString(self.day) \o " " \o name.value)
                 ELSE Panic
         [] c.type = "MayanTzolkin" ->
              LET name == Index(MAYAN_TZOLKIN_NAMES, self.name - 1)
              IN IF name.ok
                 THEN Return(ToString(self.number) \o " " \o name.value)
                 ELSE Panic
         [] c.type = "French" ->
              day_month_year(self, Index(FRENCH_MONTH_NAMES, self.month - 1))
         [] c.type = "OldHinduSolar" ->
              day_month_year(self, Index(HINDU_SOLAR_MONTH_NAMES, self.month - 1))
         [] c.type = "OldHinduLunar" ->
              day_month_year(self, Index(HINDU_LUNAR_MONTH_NAMES, self.month - 1))

\* to_date on a Box<dyn Calendar>: the to_date of the type of the value
Calendar_to_date(c) ==
    CASE c.type = "Gregorian" -> Gregorian_to_date(c.value)
      [] c.type = "Iso" -> Iso_to_date(c.value)
      [] c.type = "Julian" -> Julian_to_date(c.value)
      [] c.type = "Islamic" -> Islamic_to_date(c.value)
      [] c.type = "Hebrew" -> Hebrew_to_date(c.value)
      [] c.type = "MayanLongCount" -> MayanLongCount_to_date(c.value)
      [] c.type = "MayanHaab" -> MayanHaab_to_date(c.value)
      [] c.type = "MayanTzolkin" -> MayanTzolkin_to_date(c.value)
      [] c.type = "French" -> French_to_date(c.value)
      [] c.type = "OldHinduSolar" -> OldHinduSolar_to_date(c.value)
      [] c.type = "OldHinduLunar" -> OldHinduLunar_to_date(c.value)

(***************************************************************************)
(* The caller: the value of a calendar's from_absolute(a), and to_date and *)
(* format on that value.  TotalDates has the ends of the range, the origin *)
(* (before the Islamic and the French epoch), the first day of an Old      *)
(* Hindu leap month, and the first days of the Islamic and of the French   *)
(* calendar.                                                               *)
(***************************************************************************)
TotalDates == DispatchDates \cup {227015, 654415}

TypeOf(t) ==
    CASE t = "gregorian" -> "Gregorian"
      [] t = "iso" -> "Iso"
      [] t = "julian" -> "Julian"
      [] t = "islamic" -> "Islamic"
      [] t = "hebrew" -> "Hebrew"
      [] t = "mayanLongCount" -> "MayanLongCount"
      [] t = "mayanHaab" -> "MayanHaab"
      [] t = "mayanTzolkin" -> "MayanTzolkin"
      [] t = "french" -> "French"
      [] t = "oldHinduSolar" -> "OldHinduSolar"
      [] t = "oldHinduLunar" -> "OldHinduLunar"

InitTotal ==
    /\ a \in TotalDates
    /\ pc = "input"
    /\ cal = "none"
    /\ date = None
    /\ res = None

FromAbsolute ==
    /\ pc = "input"
    /\ \E t \in Calendars :
          /\ date' = [type |-> TypeOf(t), value |-> FromAbsoluteOf(t, a)]
          /\ cal' = t
    /\ pc' = "value"
    /\ UNCHANGED <<a, res>>

ToDate ==
    /\ pc = "value"
    /\ res' = Return(Calendar_to_date(date))
    /\ pc' = "date"
    /\ UNCHANGED <<a, cal, date>>

Format ==
    /\ pc = "value"
    /\ res' = Calendar_format(date)
    /\ pc' = "string"
    /\ UNCHANGED <<a, cal, date>>

NextTotal == FromAbsolute \/ ToDate \/ Format

SpecTotal == InitTotal /\ [][NextTotal]_vars

(***************************************************************************)
(* C14: apart from to_absolute on a Haab or Tzolkin date, every operation  *)
(* is total: for every absolute date a and every calendar, from_absolute   *)
(* returns a value (the all-zero Islamic or French date included), and     *)
(* to_date and format on that value return a Date and a string.            *)
(***************************************************************************)
ToDateAndFormatAreTotal ==
    (pc \in {"date", "string"}) => res.ok

(***************************************************************************)
(* The caller: two dates of one linear calendar (Gregorian, Julian,        *)
(* Islamic or French), the first before the second in the order of (year,  *)
(* month, day), both converted with to_absolute.  The dates are the first, *)
(* the second and the last day of every month of the years of LinearYears: *)
(* years before year 1, leap and common years of each calendar, the end of *)
(* a Gregorian century, and the French years 19 and 20 between which       *)
(* absolute_from_french changes its formula.                               *)
(***************************************************************************)
LinearCalendars == {"Gregorian", "Julian", "Islamic", "French"}

LinearYears == {-1, 0, 1, 2, 3, 4, 19, 20, 100, 400}

LastDayOf(t, month, year) ==
    CASE t = "Gregorian" -> last_day_of_gregorian_month(month, year)
      [] t = "Julian" -> last_day_of_julian_month(month, year)
      [] t = "Islamic" -> last_day_of_islamic_month(month, year)
      [] t = "French" -> french_last_day_of_month(month, year)

MonthsOf(t) == IF t = "French" THEN 1..13 ELSE 1..12

ValidDates(t) ==
    UNION {UNION {{[year |-> y, month |-> m, day |-> d] :
                      d \in {1, 2, LastDayOf(t, m, y)}} :
                  m \in MonthsOf(t)} :
           y \in LinearYears}

Precedes(d1, d2) ==
    \/ d1.year < d2.year
    \/ d1.year = d2.year /\ d1.month < d2.month
    \/ d1.year = d2.year /\ d1.month = d2.month /\ d1.day < d2.day

InitLinear ==
    /\ a = 0
    /\ pc = "input"
    /\ cal = "none"
    /\ date = None
    /\ res = None

LinearNew ==
    /\ pc = "input"
    /\ \E t \in LinearCalendars :
          /\ \E d1 \in ValidDates(t), d2 \in ValidDates(t) :
                /\ Precedes(d1, d2)
                /\ date' = <<[type |-> t, value |-> d1], [type |-> t, value |-> d2]>>
          /\ cal' = t
    /\ pc' = "boxed"
    /\ UNCHANGED <<a, res>>

LinearToAbsolute ==
    /\ pc = "boxed"
    /\ res' = <<Calendar_to_absolute(date[1]), Calendar_to_absolute(date[2])>>
    /\ pc' = "absolute"
    /\ UNCHANGED <<a, cal, date>>

NextLinear == LinearNew \/ LinearToAbsolute

SpecLinear == InitLinear /\ [][NextLinear]_vars

(***************************************************************************)
(* C15: for each linear calendar and any two valid dates d1 and d2 (month  *)
(* within the year, day from 1 to the last day of the month), if d1 is     *)
(* before d2 in the order of (year, month, day) then to_absolute(d1) <     *)
(* to_absolute(d2); a day later in the same month is exactly one absolute  *)
(* date later.                                                             *)
(***************************************************************************)
ToAbsoluteIsMonotone ==
    (pc = "absolute" /\ cal \in LinearCalendars) =>
        LET d1 == date[1].value
            d2 == date[2].value
        IN /\ res[1].ok /\ res[2].ok
           /\ res[1].value < res[2].value
           /\ (d1.year = d2.year /\ d1.month = d2.month /\ d2.day = d1.day + 1)
                 => res[2].value = res[1].value + 1

\* The last day of French year 19 and the first day of year 20, on either
\* side of the change of formula, are one absolute date apart.
ToAbsoluteIsMonotoneWitness ==
    /\ pc = "absolute" /\ cal = "French"
    /\ date[1].value = [year |-> 19, month |-> 13, day |-> 5]
    /\ date[2].value = [year |-> 20, month |-> 1, day |-> 1]
    /\ res[2].value = res[1].value + 1

(***************************************************************************)
(* holidays.rs                                                             *)
(***************************************************************************)

\* the paschal moon of easter (its lines up to `let paschal_moon`)
paschal_moon(year) ==
    LET century == floor_div(year, 100) + 1
        shifted_epact ==
            modulus(14 + (11 * modulus(year, 19)) - floor_div(3 * century, 4)
                      + floor_div(5 + (8 * century), 25)
                      + (30 * century),
                    30)
        adjusted_epact ==
            IF shifted_epact = 0 \/ (shifted_epact = 1 /\ 10 < modulus(year, 19))
            THEN shifted_epact + 1
            ELSE shifted_epact
    IN absolute_from_gregorian(Gregorian(year, 4, 19)) - adjusted_epact

\* Mutant: the Sunday on or before the paschal moon itself.
easter_on_or_before_moon(year) == kday_on_or_before(paschal_moon(year), 0)

easter(year) == kday_on_or_before(paschal_moon(year) + 7, 0)

pentecost(year) == 49 + easter(year)

\* the Vec is the sequence of the dates pushed, in the order of the pushes
islamic_date_in_gregorian_year(month, day, g_year) ==
    LET jan_1 == absolute_from_gregorian(Gregorian(g_year, 1, 1))
        dec_31 == absolute_from_gregorian(Gregorian(g_year, 12, 31))
        y == islamic_from_absolute(jan_1).year
        date_1 == absolute_from_islamic(Islamic(y, month, day))
        date_2 == absolute_from_islamic(Islamic(y + 1, month, day))
        date_3 == absolute_from_islamic(Islamic(y + 2, month, day))
        push(x) == IF jan_1 <= x /\ x <= dec_31 THEN <<x>> ELSE <<>>
    IN push(date_1) \o push(date_2) \o push(date_3)

mulad_al_nabi(g_year) == islamic_date_in_gregorian_year(3, 12, g_year)

\* Mutant: the year of the creation era that begins in the Gregorian year
\* before.
yom_kippur_year_before(g_year) == absolute_from_hebrew(Hebrew(g_year + 3760, 7, 10))

yom_kippur(g_year) == absolute_from_hebrew(Hebrew(g_year + 3761, 7, 10))

passover(g_year) == absolute_from_hebrew(Hebrew(g_year + 3760, 1, 15))

(***************************************************************************)
(* The caller of the holidays: here `a` is the Gregorian year, from 1 to   *)
(* MaxYear, `cal` the holiday and `res` its date or dates.  Easter and     *)
(* Pentecost are computed for every year; the Jewish holidays for one year *)
(* in HebrewStride, up to MaxHebrewYear, and for the years of JewishYears; *)
(* the Islamic dates for the months and days of IslamicMonths and          *)
(* IslamicDays in the years of IslamicYears, which have the years around   *)
(* the Islamic epoch (Gregorian year 622) and years with two occurrences   *)
(* of one Islamic date.                                                    *)
(***************************************************************************)
MaxYear == 4000

MaxHebrewYear == 3000

HebrewStride == 25

JewishYears ==
    {g \in 1..MaxHebrewYear : g % HebrewStride = 23} \cup {1, 2023, MaxHebrewYear}

IslamicYears == {1, 620, 621, 622, 623, 624, 1000, 1975, 2000, 2008, 2015, 3000}

IslamicMonths == {1, 3, 6, 12}

IslamicDays == {1, 8, 12, 29}

InitHolidays ==
    /\ a \in 1..MaxYear
    /\ pc = "input"
    /\ cal = "none"
    /\ date = None
    /\ res = None

Easter ==
    /\ pc = "input"
    /\ res' = easter(a)
    /\ cal' = "easter"
    /\ pc' = "holiday"
    /\ UNCHANGED <<a, date>>

Pentecost ==
    /\ pc = "input"
    /\ res' = pentecost(a)
    /\ cal' = "pentecost"
    /\ pc' = "holiday"
    /\ UNCHANGED <<a, date>>

YomKippur ==
    /\ pc = "input"
    /\ a \in JewishYears
    /\ res' = yom_kippur(a)
    /\ cal' = "yomKippur"
    /\ pc' = "holiday"
    /\ UNCHANGED <<a, date>>

Passover ==
    /\ pc = "input"
    /\ a \in JewishYears
    /\ res' = passover(a)
    /\ cal' = "passover"
    /\ pc' = "holiday"
    /\ UNCHANGED <<a, date>>

IslamicDateInGregorianYear ==
    /\ pc = "input"
    /\ a \in IslamicYears
    /\ \E month \in IslamicMonths, day \in IslamicDays :
          /\ date' = [month |-> month, day |-> day]
          /\ res' = islamic_date_in_gregorian_year(month, day, a)
    /\ cal' = "islamicDate"
    /\ pc' = "holiday"
    /\ UNCHANGED a

MuladAlNabi ==
    /\ pc = "input"
    /\ a \in IslamicYears
    /\ date' = [month |-> 3, day |-> 12]
    /\ res' = mulad_al_nabi(a)
    /\ cal' = "muladAlNabi"
    /\ pc' = "holiday"
    /\ UNCHANGED a

NextHolidays ==
    \/ Easter
    \/ Pentecost
    \/ YomKippur
    \/ Passover
    \/ IslamicDateInGregorianYear
    \/ MuladAlNabi

SpecHolidays == InitHolidays /\ [][NextHolidays]_vars

(***************************************************************************)
(* C16: for every Gregorian year y from 1 to 4000, easter(y) is a Sunday   *)
(* from 22 March to 25 April of year y, after the paschal moon and at most *)
(* 7 days after it; easter(2000) is 23 April 2000; and pentecost(y) is     *)
(* easter(y) + 49.                                                         *)
(***************************************************************************)
EasterIsTheSundayAfterTheMoon ==
    /\ (pc = "holiday" /\ cal = "easter") =>
          /\ modulus(res, 7) = 0
          /\ absolute_from_gregorian(Gregorian(a, 3, 22)) <= res
          /\ res <= absolute_from_gregorian(Gregorian(a, 4, 25))
          /\ paschal_moon(a) < res
          /\ res <= paschal_moon(a) + 7
          /\ a = 2000 => res = absolute_from_gregorian(Gregorian(2000, 4, 23))
    /\ (pc = "holiday" /\ cal = "pentecost") => res = easter(a) + 49

\* Easter of the year 2000 has been computed: 23 April.
EasterWitness ==
    /\ pc = "holiday" /\ cal = "easter"
    /\ a = 2000
    /\ gregorian_from_absolute(res) = Gregorian(2000, 4, 23)

(***************************************************************************)
(* C17: for every Gregorian year g from 1 to 3000, yom_kippur(g) is the    *)
(* absolute date of Hebrew {g + 3761, 7, 10} and passover(g) that of       *)
(* Hebrew {g + 3760, 1, 15}; each falls in Gregorian year g, and           *)
(* hebrew_from_absolute of each is that Hebrew date.                       *)
(***************************************************************************)
JewishHolidaysInTheirYear ==
    /\ (pc = "holiday" /\ cal = "yomKippur") =>
          /\ res = absolute_from_hebrew(Hebrew(a + 3761, 7, 10))
          /\ gregorian_from_absolute(res).year = a
          /\ hebrew_from_absolute(res) = Hebrew(a + 3761, 7, 10)
          /\ a = 2023 => res = absolute_from_hebrew(Hebrew(5784, 7, 10))
    /\ (pc = "holiday" /\ cal = "passover") =>
          /\ res = absolute_from_hebrew(Hebrew(a + 3760, 1, 15))
          /\ gregorian_from_absolute(res).year = a
          /\ hebrew_from_absolute(res) = Hebrew(a + 3760, 1, 15)

\* Yom Kippur of 2023 has been computed: 25 September 2023.
JewishHolidaysWitness ==
    /\ pc = "holiday" /\ cal = "yomKippur"
    /\ a = 2023
    /\ gregorian_from_absolute(res) = Gregorian(2023, 9, 25)

(***************************************************************************)
(* C18: islamic_date_in_gregorian_year(month, day, g_year) returns, in     *)
(* ascending order, exactly the absolute dates of Gregorian year g_year    *)
(* whose Islamic date has that month and day: every date returned converts *)
(* back to the month and the day, none is missed, and there are at most    *)
(* two; the same for mulad_al_nabi with month 3 and day 12.                *)
(***************************************************************************)
IslamicDatesOfTheYear ==
    (pc = "holiday" /\ cal \in {"islamicDate", "muladAlNabi"}) =>
        LET jan_1 == absolute_from_gregorian(Gregorian(a, 1, 1))
            dec_31 == absolute_from_gregorian(Gregorian(a, 12, 31))
        IN /\ Len(res) <= 2
           /\ \A i \in 1..Len(res) :
                 /\ jan_1 <= res[i] /\ res[i] <= dec_31
                 /\ islamic_from_absolute(res[i]).month = date.month
                 /\ islamic_from_absolute(res[i]).day = date.day
                 /\ i > 1 => res[i - 1] < res[i]
           /\ \A x \in jan_1..dec_31 :
                 (/\ islamic_from_absolute(x).month = date.month
                  /\ islamic_from_absolute(x).day = date.day)
                    => \E i \in 1..Len(res) : res[i] = x
           /\ cal = "muladAlNabi" => date = [month |-> 3, day |-> 12]

(***************************************************************************)
(* math.rs: floor_div as the code computes it, with the f64 division and   *)
(* floor.  The calendars above use floor_div, the same quotient in integer *)
(* arithmetic.                                                             *)
(***************************************************************************)
floor_div_f64(a_, b) == F64ToInt(F64Floor(F64Div(F64FromInt(a_), F64FromInt(b))))

(***************************************************************************)
(* The caller of modulus and floor_div: a from -MathWindow to MathWindow   *)
(* and around the large values of MathAnchors, b from 1 to MaxDivisor or   *)
(* one of the cycle lengths of Divisors.  `date` holds b.                  *)
(***************************************************************************)
MathWindow == 30

MaxDivisor == 8

MathAnchors == {-2000000000, -Range, -146097, 146097, Range, 2000000000}

MathValues ==
    ((-MathWindow)..MathWindow)
        \cup UNION {(c - Window)..(c + Window) : c \in MathAnchors}

Divisors == (1..MaxDivisor) \cup {19, 30, 365, 1461, 146097, Range}

InitMath ==
    /\ a \in MathValues
    /\ pc = "input"
    /\ cal = "none"
    /\ date = None
    /\ res = None

Modulus ==
    /\ pc = "input"
    /\ \E b \in Divisors :
          /\ date' = b
          /\ res' = modulus(a, b)
    /\ cal' = "modulus"
    /\ pc' = "result"
    /\ UNCHANGED a

FloorDiv ==
    /\ pc = "input"
    /\ \E b \in Divisors :
          /\ date' = b
          /\ res' = floor_div_f64(a, b)
    /\ cal' = "floor_div"
    /\ pc' = "result"
    /\ UNCHANGED a

NextMath == Modulus \/ FloorDiv

SpecMath == InitMath /\ [][NextMath]_vars

(***************************************************************************)
(* C19: for all integers a, negative ones included, and all b > 0:         *)
(* 0 <= modulus(a, b) < b and a = b * floor_div(a, b) + modulus(a, b);     *)
(* floor_div(a, b) is the floored quotient (the largest q with b * q <= a) *)
(* and modulus(a, b) the remainder that goes with it.                      *)
(***************************************************************************)
FlooredQuotientAndRemainder ==
    /\ (pc = "result" /\ cal = "modulus") =>
          /\ 0 <= res /\ res < date
          /\ a = date * floor_div_f64(a, date) + res
    /\ (pc = "result" /\ cal = "floor_div") =>
          /\ date * res <= a /\ a - date * res < date
          /\ a = date * res + modulus(a, date)
          /\ res = floor_div(a, date)

\* A negative a that b does not divide: the floored quotient is one below
\* the truncated one.
FlooredQuotientWitness ==
    /\ pc = "result" /\ cal = "floor_div"
    /\ a = -7 /\ date = 2
    /\ res = -4

(***************************************************************************)
(* math.rs: sum, one pull of the iterator chain at a time                  *)
(*                                                                         *)
(* (k..).take_while(p).map(f).sum() is lazy: the fold of sum() pulls one   *)
(* item at a time, and each pull takes the next index of the range, tests  *)
(* p on it, and only when p holds applies f and adds the term.  The first  *)
(* failing test ends the iteration.  f and p are given here as tables over *)
(* the indices a, a + 1, ..., a + MaxTerms - 1; `res` holds the next       *)
(* index of the range, the accumulator of the fold, and the indices p and  *)
(* f have been applied to, in order.                                       *)
(***************************************************************************)
MaxTerms == 4

TermValues == {-3, 0, 1, 30}

SumStarts == {-2, 0, 1, 7}

F(i) == date.f[(i - a) + 1]

P(i) == date.p[(i - a) + 1]

InitSum ==
    /\ a \in SumStarts
    /\ pc = "input"
    /\ cal = "sum"
    /\ date \in {t \in [f : [1..MaxTerms -> TermValues],
                        p : [1..MaxTerms -> BOOLEAN]] :
                    \E n \in 1..MaxTerms : ~t.p[n]}
    /\ res = None

\* (k..) and the initial accumulator of the fold.
SumNew ==
    /\ pc = "input"
    /\ res' = [i |-> a, acc |-> F64FromInt(0), p_at |-> <<>>, f_at |-> <<>>]
    /\ pc' = "iterating"
    /\ UNCHANGED <<a, cal, date>>

\* Mutant: the term is added before the predicate is tested.
TakeWhileNextAfterInclusion ==
    /\ pc = "iterating"
    /\ res' = [i |-> res.i + 1,
               acc |-> F64Add(res.acc, F64FromInt(F(res.i))),
               p_at |-> Append(res.p_at, res.i),
               f_at |-> Append(res.f_at, res.i)]
    /\ pc' = IF P(res.i) THEN "iterating" ELSE "done"
    /\ UNCHANGED <<a, cal, date>>

TakeWhileNext ==
    /\ pc = "iterating"
    /\ IF P(res.i)
       THEN /\ res' = [i |-> res.i + 1,
                       acc |-> F64Add(res.acc, F64FromInt(F(res.i))),
                       p_at |-> Append(res.p_at, res.i),
                       f_at |-> Append(res.f_at, res.i)]
            /\ pc' = "iterating"
       ELSE /\ res' = [res EXCEPT !.i = res.i + 1,
                                  !.p_at = Append(res.p_at, res.i)]
            /\ pc' = "done"
    /\ UNCHANGED <<a, cal, date>>

NextSum == SumNew \/ TakeWhileNext

SpecSum == InitSum /\ [][NextSum]_vars

\* The least index >= a where p is false.
FirstFalse == CHOOSE j \in a..(a + MaxTerms - 1) :
                  /\ ~P(j)
                  /\ \A i \in a..(j - 1) : P(i)

RECURSIVE TermsBetween(_, _)
TermsBetween(lo, hi) == IF hi <= lo THEN 0 ELSE F(lo) + TermsBetween(lo + 1, hi)

(***************************************************************************)
(* C20: sum(f, k, p) = f(k) + f(k+1) + ... + f(j-1) where j is the least   *)
(* integer >= k at which p is false.  p is tested before the term is       *)
(* included: p is evaluated at k, ..., j and nowhere else, f at k, ...,    *)
(* j - 1 and never at an index where p is false, the result is 0 when      *)
(* p(k) is false, and no index beyond j is examined even if p holds again  *)
(* there.                                                                  *)
(***************************************************************************)
SumStopsAtTheFirstFalse ==
    /\ (pc = "iterating" /\ cal = "sum") =>
          /\ \A n \in 1..Len(res.f_at) : P(res.f_at[n])
          /\ \A n \in 1..Len(res.p_at) : res.p_at[n] <= FirstFalse
    /\ (pc = "done" /\ cal = "sum") =>
          /\ res.p_at = [n \in 1..(FirstFalse - a + 1) |-> a + n - 1]
          /\ res.f_at = [n \in 1..(FirstFalse - a) |-> a + n - 1]
          /\ F64ToInt(res.acc) = TermsBetween(a, FirstFalse)
          /\ F64ToInt(res.acc) = sum(F, a, P)
          /\ ~P(a) => F64ToInt(res.acc) = 0

\* p fails at the second index and holds again at the third, where f is not
\* zero; the term of the failing index is not zero either.
SumStopsAtTheFirstFalseWitness ==
    /\ pc = "done" /\ cal = "sum"
    /\ a = -2
    /\ P(-2) /\ ~P(-1) /\ P(0)
    /\ F(-2) = 30 /\ F(-1) = 1 /\ F(0) = -3
    /\ F64ToInt(res.acc) = 30

(***************************************************************************)
(* iso.rs: kday_on_or_before on the absolute dates of MathValues and every *)
(* weekday index.  `date` holds k.                                         *)
(***************************************************************************)
Weekdays == 0..6

InitKday ==
    /\ a \in MathValues
    /\ pc = "input"
    /\ cal = "none"
    /\ date = None
    /\ res = None

KdayOnOrBefore ==
    /\ pc = "input"
    /\ \E k \in Weekdays :
          /\ date' = k
          /\ res' = kday_on_or_before(a, k)
    /\ cal' = "kday"
    /\ pc' = "result"
    /\ UNCHANGED a

NextKday == KdayOnOrBefore

SpecKday == InitKday /\ [][NextKday]_vars

(***************************************************************************)
(* C21: for every absolute date a, negative ones included, and every       *)
(* weekday index k in 0..6, r = kday_on_or_before(a, k) is the most recent *)
(* k-day on or before a: a - 6 <= r <= a and modulus(r, 7) = k, and no     *)
(* later day up to a has the weekday k.                                    *)
(***************************************************************************)
MostRecentKday ==
    (pc = "result" /\ cal = "kday") =>
        /\ a - 6 <= res /\ res <= a
        /\ modulus(res, 7) = date
        /\ \A r \in (res + 1)..a : modulus(r, 7) # date

\* A negative date whose weekday is not k: the result is strictly earlier.
MostRecentKdayWitness ==
    /\ pc = "result" /\ cal = "kday"
    /\ a = -10 /\ date = 0
    /\ res = -14

(***************************************************************************)
(* The searches of the inverse conversions, one test of the predicate at a *)
(* time.                                                                   *)
(*                                                                         *)
(* Every X_from_absolute counts with sum(|_| 1.0, start, p) how many       *)
(* indices from `start` on satisfy p: first the years from the             *)
(* approximation, then the months from 1 (Hebrew: from 7 or 1).            *)
(* gregorian_from_absolute computes its year arithmetically and searches   *)
(* the month only.  absolute_from_old_hindu_lunar searches the days from   *)
(* its approximation.  `cal` names the conversion, `date` is the lunar     *)
(* date looked for (None for the others), `res` holds the year found so    *)
(* far, the index the next test is made at, and the number of tests that   *)
(* held.                                                                   *)
(***************************************************************************)
SearchCalendars == {"gregorian", "julian", "islamic", "french", "hebrew"}

\* The guards before the searches: the sentinel before the epoch.
Searches(t, absolute_date) ==
    CASE t = "islamic" -> ~(absolute_date < 227014)
      [] t = "french" -> ~(absolute_date < 654415)
      [] OTHER -> TRUE

\* `approx`, the index the year search starts at.
YearStart(t, absolute_date) ==
    CASE t = "julian" -> floor_div(absolute_date + 2, 366)
      [] t = "islamic" -> floor_div(absolute_date - 227014, 355)
      [] t = "french" -> floor_div(absolute_date - 654414, 366)
      [] t = "hebrew" -> modulus(absolute_date + 1373429, 366)

\* Mutant: the comparison of the year search the other way round.
YearTestInverted(t, absolute_date, y) ==
    CASE t = "julian" ->
           absolute_date <= absolute_from_julian(Julian(y + 1, 1, 1))
      [] t = "islamic" ->
           absolute_date <= absolute_from_islamic(Islamic(y + 1, 1, 1))
      [] t = "french" ->
           absolute_date <= absolute_from_french(French(y + 1, 1, 1))
      [] t = "hebrew" ->
           absolute_date <= absolute_from_hebrew(Hebrew(y + 1, 7, 1))

\* The predicate of the year search.
YearTest(t, absolute_date, y) ==
    CASE t = "julian" ->
           absolute_date >= absolute_from_julian(Julian(y + 1, 1, 1))
      [] t = "islamic" ->
           absolute_date >= absolute_from_islamic(Islamic(y + 1, 1, 1))
      [] t = "french" ->
           absolute_date >= absolute_from_french(French(y + 1, 1, 1))
      [] t = "hebrew" ->
           absolute_date >= absolute_from_hebrew(Hebrew(y + 1, 7, 1))

\* The index the month search starts at.
MonthStart(t, absolute_date, year) ==
    IF t = "hebrew"
    THEN (IF absolute_date < absolute_from_hebrew(Hebrew(year, 1, 1))
          THEN 7
          ELSE 1)
    ELSE 1

\* The predicate of the month search.
MonthTest(t, absolute_date, year, m) ==
    CASE t = "gregorian" ->
           absolute_date >
             absolute_from_gregorian(
                 Gregorian(year, m, last_day_of_gregorian_month(m, year)))
      [] t = "julian" ->
           absolute_date >
             absolute_from_julian(
                 Julian(year, m, last_day_of_julian_month(m, year)))
      [] t = "islamic" ->
           absolute_date >
             absolute_from_islamic(
                 Islamic(year, m, last_day_of_islamic_month(m, year)))
      [] t = "french" ->
           absolute_date >
             absolute_from_french(
                 French(year, m, french_last_day_of_month(m, year)))
      [] t = "hebrew" ->
           absolute_date >
             absolute_from_hebrew(
                 Hebrew(year, m, last_day_of_hebrew_month(m, year)))

\* `approx` of absolute_from_old_hindu_lunar.
LunarStart(d) ==
    F64ToInt(F64Floor(F64Mul(F64FromInt(d.year), SOLAR_SIDEREAL_YEAR)))
      + F64ToInt(F64Floor(F64Mul(F64FromInt(d.month - 2), LUNAR_SYNODIC_MONTH)))
      - 1132959

\* The predicate of the search of absolute_from_old_hindu_lunar.
LunarTest(d, i) ==
    old_hindu_lunar_precedes(old_hindu_lunar_from_absolute(i), d)

\* The most tests a search may make here.
MaxSearchSteps == 7000

\* How far past the end of a search the predicate is tested again.
Beyond == 3

\* The absolute dates the Hebrew year search, the longest one, starts from.
HebrewSearchDates == {-Range, 0, 738985, Range}

SearchDates(t) == IF t = "hebrew" THEN HebrewSearchDates ELSE EpochDates

InitSearch ==
    /\ a \in EpochDates
    /\ pc = "input"
    /\ cal = "none"
    /\ date = None
    /\ res = None

\* The start of X_from_absolute, up to the first test.
SearchNew ==
    /\ pc = "input"
    /\ \E t \in SearchCalendars :
          /\ a \in SearchDates(t)
          /\ cal' = t
          /\ IF ~Searches(t, a)
             THEN /\ res' = [year |-> 0, index |-> 0, steps |-> 0]
                  /\ pc' = "done"
             ELSE IF t = "gregorian"
             THEN /\ res' = [year |-> gregorian_from_absolute(a).year,
                             index |-> 1, steps |-> 0]
                  /\ pc' = "month"
             ELSE /\ res' = [year |-> YearStart(t, a),
                             index |-> YearStart(t, a), steps |-> 0]
                  /\ pc' = "year"
    /\ UNCHANGED <<a, date>>

\* One pull of the year search.
YearNext ==
    /\ pc = "year"
    /\ res.steps < MaxSearchSteps
    /\ IF YearTest(cal, a, res.index)
       THEN /\ res' = [year |-> res.year + 1, index |-> res.index + 1,
                       steps |-> res.steps + 1]
            /\ pc' = "year"
       ELSE /\ res' = [year |-> res.year,
                       index |-> MonthStart(cal, a, res.year),
                       steps |-> res.steps]
            /\ pc' = "month"
    /\ UNCHANGED <<a, cal, date>>

\* One pull of the month search.
MonthNext ==
    /\ pc = "month"
    /\ res.steps < MaxSearchSteps
    /\ IF MonthTest(cal, a, res.year, res.index)
       THEN /\ res' = [res EXCEPT !.index = res.index + 1,
                                  !.steps = res.steps + 1]
            /\ pc' = "month"
       ELSE /\ res' = res
            /\ pc' = "done"
    /\ UNCHANGED <<a, cal, date>>

\* The start of absolute_from_old_hindu_lunar on a date built as in
\* OldHinduLunarNew.
LunarSearchNew ==
    /\ pc = "input"
    /\ a \in LunarDates
    /\ \E leap_month \in BOOLEAN, k \in (-DayShift)..DayShift :
          LET d == old_hindu_lunar_from_absolute(a)
              s == OldHinduLunar(d.year, d.month, leap_month, d.day + k)
          IN /\ date' = s
             /\ res' = [year |-> s.year, index |-> LunarStart(s), steps |-> 0]
    /\ cal' = "oldHinduLunar"
    /\ pc' = "day"
    /\ UNCHANGED a

\* One pull of the day search.
LunarSearchNext ==
    /\ pc = "day"
    /\ res.steps < MaxSearchSteps
    /\ IF LunarTest(date, res.index)
       THEN /\ res' = [res EXCEPT !.index = res.index + 1,
                                  !.steps = res.steps + 1]
            /\ pc' = "day"
       ELSE /\ res' = res
            /\ pc' = "done"
    /\ UNCHANGED <<a, cal, date>>

NextSearch ==
    \/ SearchNew
    \/ YearNext
    \/ MonthNext
    \/ LunarSearchNew
    \/ LunarSearchNext

SpecSearch == InitSearch /\ [][NextSearch]_vars

\* The last month a month search may test without indexing past the table
\* of the month lengths.
LastMonthOf(t, year) ==
    CASE t = "french" -> 13
      [] t = "hebrew" -> last_month_of_hebrew_year(year)
      [] OTHER -> 12

\* The last month of the run of months a month search goes through: the
\* Hebrew year begins with month 7 and ends with month 6.
LastSearchedMonth(t, year, m) ==
    IF t = "hebrew" /\ m <= 6 THEN 6 ELSE LastMonthOf(t, year)

\* Every search is still short of MaxSearchSteps tests while it runs.
StillSearching ==
    (pc \in {"year", "month", "day"}) => res.steps < MaxSearchSteps

\* Where a year search or a day search has ended, its predicate is false
\* from there on.
YearFalseAfterwards ==
    /\ (pc \in {"month", "done"} /\ cal \in SearchCalendars \ {"gregorian"}
           /\ Searches(cal, a)) =>
          \A y \in res.year..(res.year + Beyond) : ~YearTest(cal, a, y)
    /\ (pc = "done" /\ cal = "oldHinduLunar") =>
          \A i \in res.index..(res.index + Beyond) : ~LunarTest(date, i)

(***************************************************************************)
(* C22 as stated: every search reaches an index where its predicate is     *)
(* false, and the predicate is false at every later index: for the month   *)
(* searches, at every later month of the year.                             *)
(***************************************************************************)
FalseAfterwards ==
    /\ StillSearching
    /\ YearFalseAfterwards
    /\ (pc = "done" /\ cal \in SearchCalendars /\ Searches(cal, a)) =>
          /\ res.index <= LastMonthOf(cal, res.year)
          /\ \A m \in res.index..LastMonthOf(cal, res.year) :
                ~MonthTest(cal, a, res.year, m)

(***************************************************************************)
(* C22, amended: every search-based inverse terminates.  For the absolute  *)
(* dates of -Range..Range the year search and the month search of          *)
(* julian_from_absolute, islamic_from_absolute, french_from_absolute and   *)
(* hebrew_from_absolute, and the month search of gregorian_from_absolute,  *)
(* reach an index where their predicate is false after fewer than          *)
(* MaxSearchSteps tests, and so does the search of                         *)
(* absolute_from_old_hindu_lunar.  The predicate of a year search is false *)
(* from that index on; the predicate of a month search is false from that  *)
(* index to the end of the run of months searched, which for a Hebrew      *)
(* search started at month 1 is month 6 (the predicate holds again for     *)
(* months 7 and later, which come earlier in the Hebrew year).             *)
(***************************************************************************)
EverySearchTerminates ==
    /\ StillSearching
    /\ YearFalseAfterwards
    /\ (pc = "done" /\ cal \in SearchCalendars /\ Searches(cal, a)) =>
          /\ res.index <= LastSearchedMonth(cal, res.year, res.index)
          /\ \A m \in res.index..LastSearchedMonth(cal, res.year, res.index) :
                ~MonthTest(cal, a, res.year, m)

\* A Hebrew year search that has tested some thousand years has ended, and
\* the month search started at month 1 after it: 1 Nisan 5784.
EverySearchTerminatesWitness ==
    /\ pc = "done" /\ cal = "hebrew"
    /\ a = 738985
    /\ res.year = 5784 /\ res.index = 1
    /\ res.steps > 5000

(***************************************************************************)
(* The length of a year: the caller converts the first day of a year and   *)
(* of the next year to absolute dates and adds up the lengths of the       *)
(* months of the year.  `a` is the year; `res` holds the two absolute      *)
(* dates and the sum of the month lengths.                                 *)
(***************************************************************************)
YearsBefore == 3000

YearCalendars == {"Gregorian", "Julian", "Islamic", "French"}

\* Islamic and French years are counted from 1.
FirstYearOf(t) == IF t \in {"Islamic", "French"} THEN 1 ELSE -YearsBefore

NewYearOf(t, year) ==
    CASE t = "Gregorian" -> absolute_from_gregorian(Gregorian(year, 1, 1))
      [] t = "Julian" -> absolute_from_julian(Julian(year, 1, 1))
      [] t = "Islamic" -> absolute_from_islamic(Islamic(year, 1, 1))
      [] t = "French" -> absolute_from_french(French(year, 1, 1))

MonthLengthsOf(t, year) ==
    LET f(m) == LastDayOf(t, m, year)
        p(m) == m <= (IF t = "French" THEN 13 ELSE 12)
    IN sum(f, 1, p)

InitYears ==
    /\ a \in (-YearsBefore)..MaxYear
    /\ pc = "input"
    /\ cal = "none"
    /\ date = None
    /\ res = None

YearLength ==
    /\ pc = "input"
    /\ \E t \in YearCalendars :
          /\ a >= FirstYearOf(t)
          /\ cal' = t
          /\ res' = [first |-> NewYearOf(t, a),
                     next |-> NewYearOf(t, a + 1),
                     months |-> MonthLengthsOf(t, a)]
    /\ pc' = "length"
    /\ UNCHANGED <<a, date>>

NextYears == YearLength

SpecYears == InitYears /\ [][NextYears]_vars

\* The leap-year rules as the calendars state them.
LeapYearRule(t, y) ==
    CASE t = "Gregorian" -> y % 4 = 0 /\ (y % 100 # 0 \/ y % 400 = 0)
      [] t = "Julian" -> y % 4 = 0
      [] t = "Islamic" -> (14 + 11 * y) % 30 < 11
      [] t = "French" -> french_leap_year(y)

CommonYearOf(t) == IF t = "Islamic" THEN 354 ELSE 365

(***************************************************************************)
(* C23: the forward conversions agree with the leap-year rules.  For       *)
(* Gregorian and Julian (every year y of -YearsBefore..MaxYear), Islamic   *)
(* and French (y >= 1), absolute_from_X({y+1,1,1}) -                       *)
(* absolute_from_X({y,1,1}) equals the sum of the last days of the months  *)
(* of y, which is the length of the common year (365, Islamic 354) plus 1  *)
(* exactly when y is a leap year.                                          *)
(***************************************************************************)
YearLengthFollowsLeapRule ==
    (pc = "length" /\ cal \in YearCalendars) =>
        /\ res.next - res.first = res.months
        /\ res.months = CommonYearOf(cal) + (IF LeapYearRule(cal, a) THEN 1 ELSE 0)

\* French year 20, the first leap year of the second formula, has been
\* measured.
YearLengthFollowsLeapRuleWitness ==
    /\ pc = "length" /\ cal = "French"
    /\ a = 20
    /\ res.months = 366 /\ res.next - res.first = 366

(***************************************************************************)
(* hebrew.rs, year by year: the day a Hebrew year starts on and the length *)
(* of the year.  `a` is the Hebrew year.                                   *)
(***************************************************************************)
LastHebrewYear == 7000

InitHebrewYears ==
    /\ a \in 1..LastHebrewYear
    /\ pc = "input"
    /\ cal = "none"
    /\ date = None
    /\ res = None

HebrewCalendarElapsedDays ==
    /\ pc = "input"
    /\ res' = hebrew_calendar_elapsed_days(a)
    /\ cal' = "elapsed"
    /\ pc' = "year"
    /\ UNCHANGED <<a, date>>

\* absolute_from_hebrew on 1 Tishri (month 7) of the year.
HebrewNewYear ==
    /\ pc = "input"
    /\ date' = Hebrew(a, 7, 1)
    /\ res' = absolute_from_hebrew(Hebrew(a, 7, 1))
    /\ cal' = "tishri"
    /\ pc' = "year"
    /\ UNCHANGED a

\* days_in_hebrew_year, long_heshvan, short_kislev and the lengths of the
\* months in the order of the year: 7 .. last, then 1 .. 6.
DaysInHebrewYear ==
    /\ pc = "input"
    /\ res' = [days |-> days_in_hebrew_year(a),
               long_heshvan |-> long_heshvan(a),
               short_kislev |-> short_kislev(a),
               months |-> [m \in 1..last_month_of_hebrew_year(a) |->
                             last_day_of_hebrew_month(m, a)]]
    /\ cal' = "length"
    /\ pc' = "year"
    /\ UNCHANGED <<a, date>>

NextHebrewYears ==
    \/ HebrewCalendarElapsedDays
    \/ HebrewNewYear
    \/ DaysInHebrewYear

SpecHebrewYears == InitHebrewYears /\ [][NextHebrewYears]_vars

(***************************************************************************)
(* C24: a Hebrew year never starts on Sunday, Wednesday or Friday.  For    *)
(* every Hebrew year y of 1..LastHebrewYear,                               *)
(* modulus(hebrew_calendar_elapsed_days(y), 7) is not in {0, 3, 5}, and    *)
(* neither is modulus 7 of the absolute date of 1 Tishri,                  *)
(* absolute_from_hebrew({y, 7, 1}).                                        *)
(***************************************************************************)
YearStartsNotSunWedFri ==
    /\ (pc = "year" /\ cal = "elapsed") => modulus(res, 7) \notin {0, 3, 5}
    /\ (pc = "year" /\ cal = "tishri") =>
          /\ modulus(res, 7) \notin {0, 3, 5}
          /\ modulus(res, 7) = modulus(hebrew_calendar_elapsed_days(a), 7)

\* 1 Tishri 5784 is absolute date 738779, a Saturday (16 September 2023).
YearStartsNotSunWedFriWitness ==
    /\ pc = "year" /\ cal = "tishri"
    /\ a = 5784
    /\ res = 738779 /\ modulus(res, 7) = 6

RECURSIVE SumOfMonths(_, _)
SumOfMonths(months, n) == IF n = 0 THEN 0 ELSE months[n] + SumOfMonths(months, n - 1)

(***************************************************************************)
(* C25: for every Hebrew year y of 1..LastHebrewYear,                      *)
(* days_in_hebrew_year(y) is one of 353, 354, 355 when y is not a leap     *)
(* year and one of 383, 384, 385 when it is ((7y + 1) mod 19 < 7); Heshvan *)
(* (month 8) has 30 days exactly when that length is 5 mod 10 and Kislev   *)
(* (month 9) has 29 days exactly when it is 3 mod 10; and the lengths of   *)
(* the months 7..last and 1..6 add up to days_in_hebrew_year(y).           *)
(***************************************************************************)
HebrewYearLengths ==
    (pc = "year" /\ cal = "length") =>
        /\ IF (7 * a + 1) % 19 < 7
           THEN res.days \in {383, 384, 385} /\ Len(res.months) = 13
           ELSE res.days \in {353, 354, 355} /\ Len(res.months) = 12
        /\ res.months[8] = 30 <=> res.days % 10 = 5
        /\ res.months[8] \in {29, 30}
        /\ res.months[9] = 29 <=> res.days % 10 = 3
        /\ res.months[9] \in {29, 30}
        /\ res.long_heshvan <=> res.months[8] = 30
        /\ res.short_kislev <=> res.months[9] = 29
        /\ SumOfMonths(res.months, Len(res.months)) = res.days

\* 5784 is a leap year of 383 days: Heshvan and Kislev both have 29 days.
HebrewYearLengthsWitness ==
    /\ pc = "year" /\ cal = "length"
    /\ a = 5784
    /\ res.days = 383
    /\ res.months[8] = 29 /\ res.months[9] = 29 /\ Len(res.months) = 13

(***************************************************************************)
(* holidays.rs: the holidays of the Gregorian year                         *)
(***************************************************************************)
\* Mutant: the first k-day counted back from the first of the month.
nth_kday_from_the_first(n, k, month, year) ==
    IF n > 0
    THEN kday_on_or_before(
             absolute_from_gregorian(Gregorian(year, month, 1)), k)
           + (7 * (n - 1))
    ELSE kday_on_or_before(
             absolute_from_gregorian(
                 Gregorian(year, month, last_day_of_gregorian_month(month, year))),
             k)
           + (7 * (n + 1))

nth_kday(n, k, month, year) ==
    IF n > 0
    THEN kday_on_or_before(
             absolute_from_gregorian(Gregorian(year, month, 7)), k)
           + (7 * (n - 1))
    ELSE kday_on_or_before(
             absolute_from_gregorian(
                 Gregorian(year, month, last_day_of_gregorian_month(month, year))),
             k)
           + (7 * (n + 1))

labor_day(year) == nth_kday(1, 1, 9, year)

memorial_day(year) == nth_kday(-1, 1, 5, year)

daylight_savings_start(year) == nth_kday(1, 0, 4, year)

daylight_savings_end(year) == nth_kday(-1, 0, 10, year)

christmas(year) == absolute_from_gregorian(Gregorian(year, 12, 25))

advent(year) ==
    kday_on_or_before(absolute_from_gregorian(Gregorian(year, 12, 3)), 0)

epiphany(year) == 12 + christmas(year)

(***************************************************************************)
(* The caller (build.rs): one holiday function applied to a Gregorian      *)
(* year, `a`; `cal` names the function and `res` is the absolute date it   *)
(* returns.                                                                *)
(***************************************************************************)
InitCivil ==
    /\ a \in 1..MaxYear
    /\ pc = "input"
    /\ cal = "none"
    /\ date = None
    /\ res = None

LaborDay ==
    /\ pc = "input"
    /\ res' = labor_day(a)
    /\ cal' = "labor_day"
    /\ pc' = "holiday"
    /\ UNCHANGED <<a, date>>

MemorialDay ==
    /\ pc = "input"
    /\ res' = memorial_day(a)
    /\ cal' = "memorial_day"
    /\ pc' = "holiday"
    /\ UNCHANGED <<a, date>>

DaylightSavingsStart ==
    /\ pc = "input"
    /\ res' = daylight_savings_start(a)
    /\ cal' = "daylight_savings_start"
    /\ pc' = "holiday"
    /\ UNCHANGED <<a, date>>

DaylightSavingsEnd ==
    /\ pc = "input"
    /\ res' = daylight_savings_end(a)
    /\ cal' = "daylight_savings_end"
    /\ pc' = "holiday"
    /\ UNCHANGED <<a, date>>

Christmas ==
    /\ pc = "input"
    /\ res' = christmas(a)
    /\ cal' = "christmas"
    /\ pc' = "holiday"
    /\ UNCHANGED <<a, date>>

Advent ==
    /\ pc = "input"
    /\ res' = advent(a)
    /\ cal' = "advent"
    /\ pc' = "holiday"
    /\ UNCHANGED <<a, date>>

Epiphany ==
    /\ pc = "input"
    /\ res' = epiphany(a)
    /\ cal' = "epiphany"
    /\ pc' = "holiday"
    /\ UNCHANGED <<a, date>>

NextCivil ==
    \/ LaborDay
    \/ MemorialDay
    \/ DaylightSavingsStart
    \/ DaylightSavingsEnd
    \/ Christmas
    \/ Advent
    \/ Epiphany

SpecCivil == InitCivil /\ [][NextCivil]_vars

\* The absolute date x is the weekday k and a day first..last of the month
\* of the Gregorian year.
FallsOn(x, k, year, month, first, last) ==
    /\ modulus(x, 7) = k
    /\ gregorian_from_absolute(x).year = year
    /\ gregorian_from_absolute(x).month = month
    /\ gregorian_from_absolute(x).day \in first..last

(***************************************************************************)
(* C26: the nth-weekday holidays land on the right weekday inside the      *)
(* right month, for every Gregorian year y of 1..MaxYear: labor_day(y) is  *)
(* a Monday, 1 to 7 September of y; memorial_day(y) a Monday, 25 to 31 May *)
(* of y; daylight_savings_start(y) a Sunday, 1 to 7 April of y;            *)
(* daylight_savings_end(y) a Sunday, 25 to 31 October of y.                *)
(***************************************************************************)
NthKdayInsideTheMonth ==
    /\ (pc = "holiday" /\ cal = "labor_day") => FallsOn(res, 1, a, 9, 1, 7)
    /\ (pc = "holiday" /\ cal = "memorial_day") => FallsOn(res, 1, a, 5, 25, 31)
    /\ (pc = "holiday" /\ cal = "daylight_savings_start") =>
          FallsOn(res, 0, a, 4, 1, 7)
    /\ (pc = "holiday" /\ cal = "daylight_savings_end") =>
          FallsOn(res, 0, a, 10, 25, 31)

\* Labor Day of 2025 is Monday 1 September, the first day of the month.
NthKdayInsideTheMonthWitness ==
    /\ pc = "holiday" /\ cal = "labor_day"
    /\ a = 2025
    /\ gregorian_from_absolute(res) = Gregorian(2025, 9, 1)

(***************************************************************************)
(* C28: epiphany(year) is the absolute date of Epiphany in the given       *)
(* Gregorian year: gregorian_from_absolute(epiphany(year)).year = year for *)
(* every year.  Likewise christmas(year), and advent(year), a Sunday from  *)
(* 27 November to 3 December, lie inside the Gregorian year.               *)
(***************************************************************************)
HolidaysInsideTheirYear ==
    /\ (pc = "holiday" /\ cal = "epiphany") =>
          gregorian_from_absolute(res).year = a
    /\ (pc = "holiday" /\ cal = "christmas") =>
          gregorian_from_absolute(res) = Gregorian(a, 12, 25)
    /\ (pc = "holiday" /\ cal = "advent") =>
          /\ modulus(res, 7) = 0
          /\ absolute_from_gregorian(Gregorian(a, 11, 27)) <= res
          /\ res <= absolute_from_gregorian(Gregorian(a, 12, 3))
          /\ gregorian_from_absolute(res).year = a

(***************************************************************************)
(* mayan.rs: the cyclical dates on or before an absolute date.  The caller *)
(* takes the Haab or the Tzolkin date of a day x at most CycleSpan days    *)
(* from a, and asks for its latest occurrence on or before a.  `date`      *)
(* holds the cyclical date and x.                                          *)
(***************************************************************************)
CycleSpan == 400

CycleDates == Around({-Range, 0, Range, -MAYAN_DAYS_BEFORE_ABSOLUTE_ZERO})

InitCycle ==
    /\ a \in CycleDates
    /\ pc = "input"
    /\ cal = "none"
    /\ date = None
    /\ res = None

HaabFromAbsolute ==
    /\ pc = "input"
    /\ \E x \in (a - CycleSpan)..(a + CycleSpan) :
          date' = [d |-> mayan_haab_from_absolute(x), x |-> x]
    /\ cal' = "mayanHaab"
    /\ pc' = "date"
    /\ UNCHANGED <<a, res>>

TzolkinFromAbsolute ==
    /\ pc = "input"
    /\ \E x \in (a - CycleSpan)..(a + CycleSpan) :
          date' = [d |-> mayan_tzolkin_from_absolute(x), x |-> x]
    /\ cal' = "mayanTzolkin"
    /\ pc' = "date"
    /\ UNCHANGED <<a, res>>

HaabOnOrBefore ==
    /\ pc = "date" /\ cal = "mayanHaab"
    /\ res' = mayan_haab_on_or_before(date.d, a)
    /\ pc' = "found"
    /\ UNCHANGED <<a, cal, date>>

TzolkinOnOrBefore ==
    /\ pc = "date" /\ cal = "mayanTzolkin"
    /\ res' = mayan_tzolkin_on_or_before(date.d, a)
    /\ pc' = "found"
    /\ UNCHANGED <<a, cal, date>>

NextCycle ==
    \/ HaabFromAbsolute
    \/ TzolkinFromAbsolute
    \/ HaabOnOrBefore
    \/ TzolkinOnOrBefore

SpecCycle == InitCycle /\ [][NextCycle]_vars

\* The Haab part of C27.
HaabOnOrBeforeIsLatest ==
    /\ (pc \in {"date", "found"} /\ cal = "mayanHaab") =>
          mayan_haab_difference(date.d, mayan_haab_from_absolute(a))
            = modulus(a - date.x, 365)
    /\ (pc = "found" /\ cal = "mayanHaab") =>
          /\ res <= a /\ a - res < 365
          /\ mayan_haab_from_absolute(res) = date.d
          /\ res = a - modulus(a - date.x, 365)

\* The Tzolkin part of C27.
TzolkinOnOrBeforeIsLatest ==
    /\ (pc \in {"date", "found"} /\ cal = "mayanTzolkin") =>
          mayan_tzolkin_difference(date.d, mayan_tzolkin_from_absolute(a))
            = modulus(a - date.x, 260)
    /\ (pc = "found" /\ cal = "mayanTzolkin") =>
          /\ res <= a /\ a - res < 260
          /\ mayan_tzolkin_from_absolute(res) = date.d
          /\ res = a - modulus(a - date.x, 260)

(***************************************************************************)
(* C27: for every absolute date a and every cyclical date d that occurs,   *)
(* mayan_haab_on_or_before(d, a) is the latest r <= a with a - r < 365 and *)
(* mayan_haab_from_absolute(r) = d, and mayan_tzolkin_on_or_before(d, a)   *)
(* the latest r <= a with a - r < 260 and mayan_tzolkin_from_absolute(r)   *)
(* = d; equivalently the difference of the cyclical dates of x and y is    *)
(* modulus(y - x, 365), resp. modulus(y - x, 260).                         *)
(***************************************************************************)
CyclicalOnOrBeforeIsLatest ==
    HaabOnOrBeforeIsLatest /\ TzolkinOnOrBeforeIsLatest

(***************************************************************************)
(* The dates julian_from_absolute and hebrew_from_absolute return.  The    *)
(* caller starts from the absolute dates of Dates and from the first days  *)
(* of the Hebrew calendar, which begins before -Range.                     *)
(***************************************************************************)
\* 1 Tishri of the Hebrew year 1.
HebrewEpoch == absolute_from_hebrew(Hebrew(1, 7, 1))

EarlyDays == 400

InitWellFormed ==
    /\ a \in Dates \cup (HebrewEpoch..(HebrewEpoch + EarlyDays))
    /\ pc = "input"
    /\ cal = "none"
    /\ date = None
    /\ res = None

NextWellFormed == JulianFromAbsolute \/ HebrewFromAbsolute

SpecWellFormed == InitWellFormed /\ [][NextWellFormed]_vars

(***************************************************************************)
(* C29: for every absolute date a of -Range..Range,                        *)
(* julian_from_absolute(a) is a well-formed Julian date: its year y is the *)
(* one with absolute_from_julian({y,1,1}) <= a <                           *)
(* absolute_from_julian({y+1,1,1}), its month is in 1..12 and its day in   *)
(* 1..last_day_of_julian_month(month, year); the approximation             *)
(* floor_div(a + 2, 366) never exceeds the true year.                      *)
(***************************************************************************)
JulianDateIsWellFormed ==
    (pc = "date" /\ cal = "julian" /\ InRange(a)) =>
        /\ absolute_from_julian(Julian(date.year, 1, 1)) <= a
        /\ a < absolute_from_julian(Julian(date.year + 1, 1, 1))
        /\ 1 <= date.month /\ date.month <= 12
        /\ 1 <= date.day
        /\ date.day <= last_day_of_julian_month(date.month, date.year)
        /\ floor_div(a + 2, 366) <= date.year

(***************************************************************************)
(* C30: for every absolute date a from the first day of Hebrew year 1 up   *)
(* to Range, hebrew_from_absolute(a) is a well-formed Hebrew date: its     *)
(* year y has absolute_from_hebrew({y,7,1}) <= a <                         *)
(* absolute_from_hebrew({y+1,7,1}), its month is in                        *)
(* 1..last_month_of_hebrew_year(y) and its day in                          *)
(* 1..last_day_of_hebrew_month(month, y); the approximation the year       *)
(* search starts from never exceeds the true Hebrew year.                  *)
(***************************************************************************)
HebrewDateIsWellFormed ==
    (pc = "date" /\ cal = "hebrew" /\ HebrewEpoch <= a /\ a <= Range) =>
        /\ absolute_from_hebrew(Hebrew(date.year, 7, 1)) <= a
        /\ a < absolute_from_hebrew(Hebrew(date.year + 1, 7, 1))
        /\ 1 <= date.month
        /\ date.month <= last_month_of_hebrew_year(date.year)
        /\ 1 <= date.day
        /\ date.day <= last_day_of_hebrew_month(date.month, date.year)

====
